---- MODULE Spec2Model ----
(***************************************************************************)
(* Model of src/src/profile-logic/symbolication.js: the address collector  *)
(* (getThreadSymbolicationInfo), the request aggregator                    *)
(* (buildLibSymbolicationRequestsForAllThreads), the substitution engine   *)
(* (applySymbolicationStep, makeConsensusMap) and the orchestrator         *)
(* (symbolicateProfile, finishSymbolicationForLib).                        *)
(*                                                                         *)
(* JS arrays and table columns are sequences read through At/SetAt with    *)
(* the source's 0-based indices.  A JS Map is a sequence of <<key, value>> *)
(* pairs in insertion order, a JS Set a duplicate-free sequence in         *)
(* insertion order.  null is Null, a missing optional string is Undefined. *)
(***************************************************************************)
EXTENDS Integers, Sequences, FiniteSets, TLC

VARIABLES
    threads,              \* profile.threads as the caller's store holds them
    symbolicationInfo,    \* per thread: the collector's Map, as of the last collection
    oldFuncToNewFuncMap,  \* the caller's FuncToFuncMap handed to the next step
    last,                 \* record of the latest applySymbolicationStep call
    prev,                 \* record of the call before the latest
    nSteps,               \* number of applySymbolicationStep calls so far
    run,                  \* state of the symbolicateProfile task
    consensusCall         \* pairs handed to makeConsensusMap and the map returned

vars ==
    <<threads, symbolicationInfo, oldFuncToNewFuncMap, last, prev, nSteps, run,
      consensusCall>>

----------------------------------------------------------------------------
(* Values *)

Null == 0 - 1
Undefined == "undefined"

----------------------------------------------------------------------------
(* JS containers *)

At(a, i) == a[i + 1]

SetAt(a, i, v) == IF i < Len(a) THEN [a EXCEPT ![i + 1] = v] ELSE Append(a, v)

MapHas(m, k) == \E i \in 1..Len(m) : m[i][1] = k

MapGet(m, k) == m[CHOOSE i \in 1..Len(m) : m[i][1] = k][2]

MapSet(m, k, v) ==
    IF MapHas(m, k)
    THEN [m EXCEPT ![CHOOSE i \in 1..Len(m) : m[i][1] = k] = <<k, v>>]
    ELSE Append(m, <<k, v>>)

MapDelete(m, k) == SelectSeq(m, LAMBDA e : e[1] # k)

MapKeys(m) == {m[i][1] : i \in 1..Len(m)}

SetHas(s, x) == \E i \in 1..Len(s) : s[i] = x

SetAdd(s, x) == IF SetHas(s, x) THEN s ELSE Append(s, x)

SetDelete(s, x) == SelectSeq(s, LAMBDA e : e # x)

SetElems(s) == {s[i] : i \in 1..Len(s)}

----------------------------------------------------------------------------
(* Strings *)

HexChars == <<"0", "1", "2", "3", "4", "5", "6", "7",
              "8", "9", "a", "b", "c", "d", "e", "f">>

RECURSIVE ToString16(_)
ToString16(n) ==
    IF n < 16 THEN HexChars[n + 1]
    ELSE ToString16(n \div 16) \o HexChars[(n % 16) + 1]

RECURSIVE ToString10(_)
ToString10(n) ==
    IF n < 10 THEN HexChars[n + 1]
    ELSE ToString10(n \div 10) \o HexChars[(n % 10) + 1]

PlaceholderName(address) == "0x" \o ToString16(address)

\* stringTable.getString
GetString(stringTable, index) == At(stringTable, index)

\* stringTable.indexForString: the index of the string, appended when new.
IndexForString(stringTable, s) ==
    IF \E i \in 1..Len(stringTable) : stringTable[i] = s
    THEN [table |-> stringTable,
          index |-> (CHOOSE i \in 1..Len(stringTable) : stringTable[i] = s) - 1]
    ELSE [table |-> Append(stringTable, s), index |-> Len(stringTable)]

\* A faulty key that leaves the file name out.
FuncKeyWithoutFile(functionStringIndex, fileNameStringIndex) ==
    ToString10(functionStringIndex) \o ":"

FuncKey(functionStringIndex, fileNameStringIndex) ==
    ToString10(functionStringIndex) \o ":" \o
        (IF fileNameStringIndex = Null THEN "" ELSE ToString10(fileNameStringIndex))

----------------------------------------------------------------------------
(* Copies: a copy is a new object, so later writes to it leave the         *)
(* original alone; sameObject records whether the result aliases the       *)
(* argument.                                                               *)

\* A faulty copy that hands back the array it was given.
SliceSameArray(column) == [elems |-> column, sameObject |-> TRUE]

Slice(column) == [elems |-> column, sameObject |-> FALSE]

ShallowCloneFuncTable(funcTable) == [table |-> funcTable, sameObject |-> FALSE]

ShallowCloneNativeSymbolTable(nativeSymbols) ==
    [table |-> nativeSymbols, sameObject |-> FALSE]

----------------------------------------------------------------------------
(* makeConsensusMap *)

\* A faulty iteration that lets the last pair of a key win, as new Map does.
ConsensusPairLastWins(st, pair) ==
    [st EXCEPT !.consensusMap = MapSet(@, pair[1], pair[2])]

\* A faulty iteration that treats every repeated key as a divergence.
ConsensusPairStrict(st, pair) ==
    IF SetHas(st.divergentKeys, pair[1]) THEN st
    ELSE IF MapHas(st.consensusMap, pair[1])
    THEN [consensusMap |-> MapDelete(st.consensusMap, pair[1]),
          divergentKeys |-> SetAdd(st.divergentKeys, pair[1])]
    ELSE [st EXCEPT !.consensusMap = MapSet(@, pair[1], pair[2])]

\* One iteration of the loop.  consensusMap.get answers undefined for a key
\* the map does not have and for a key whose value is undefined; among the
\* values of pairs Null stands for undefined.
ConsensusPair(st, pair) ==
    LET key == pair[1]
        value == pair[2]
        previousValue == IF MapHas(st.consensusMap, key)
                         THEN MapGet(st.consensusMap, key)
                         ELSE Null
    IN  IF SetHas(st.divergentKeys, key) THEN st
        ELSE IF previousValue = Null
        THEN [st EXCEPT !.consensusMap = MapSet(@, key, value)]
        ELSE IF previousValue # value
        THEN [consensusMap |-> MapDelete(st.consensusMap, key),
              divergentKeys |-> SetAdd(st.divergentKeys, key)]
        ELSE st

RECURSIVE ConsensusLoop(_, _, _)
ConsensusLoop(st, pairs, i) ==
    IF i > Len(pairs) THEN st
    ELSE ConsensusLoop(ConsensusPair(st, pairs[i]), pairs, i + 1)

\* A faulty map that keeps the first value of every key.
RECURSIVE FirstValues(_, _, _)
FirstValues(map, pairs, i) ==
    IF i > Len(pairs) THEN map
    ELSE FirstValues(IF MapHas(map, pairs[i][1]) THEN map
                     ELSE MapSet(map, pairs[i][1], pairs[i][2]),
                     pairs, i + 1)

MakeConsensusMapFirstWins(iterableOfEntryPairs) ==
    FirstValues(<<>>, iterableOfEntryPairs, 1)

MakeConsensusMap(iterableOfEntryPairs) ==
    ConsensusLoop([consensusMap |-> <<>>, divergentKeys |-> <<>>],
                  iterableOfEntryPairs, 1).consensusMap

----------------------------------------------------------------------------
(* getThreadSymbolicationInfo *)

LibKey(lib) == lib.debugName \o <<"/">> \o lib.breakpadId

FuncsOfResource(thread, resourceIndex) ==
    SelectSeq([i \in 1..thread.funcTable.length |-> i - 1],
              LAMBDA funcIndex :
                  At(thread.funcTable.resource, funcIndex) = resourceIndex)

\* A faulty collector that lists the native symbols of every lib.
NativeSymbolsOfAnyLib(thread, libIndex) ==
    [i \in 1..thread.nativeSymbols.length |-> i - 1]

NativeSymbolsOfLib(thread, libIndex) ==
    SelectSeq([i \in 1..thread.nativeSymbols.length |-> i - 1],
              LAMBDA nativeSymbolIndex :
                  At(thread.nativeSymbols.libIndex, nativeSymbolIndex) = libIndex)

FramesOfResource(thread, resourceIndex) ==
    SelectSeq([i \in 1..thread.frameTable.length |-> i - 1],
              LAMBDA frameIndex :
                  At(thread.funcTable.resource,
                     At(thread.frameTable.func, frameIndex)) = resourceIndex)

ThreadLibSymbolicationInfo(thread, resourceIndex) ==
    LET libIndex == At(thread.resourceTable.lib, resourceIndex)
        allFramesForThisLib == FramesOfResource(thread, resourceIndex)
    IN  [libIndex |-> libIndex,
         resourceIndex |-> resourceIndex,
         allFuncsForThisLib |-> FuncsOfResource(thread, resourceIndex),
         allNativeSymbolsForThisLib |-> NativeSymbolsOfLib(thread, libIndex),
         allFramesForThisLib |-> allFramesForThisLib,
         frameAddresses |->
             [i \in 1..Len(allFramesForThisLib) |->
                 At(thread.frameTable.address, allFramesForThisLib[i])]]

\* A faulty iteration that skips a resource whose lib index has no lib.
CollectResourceSkippingMissingLib(thread, st, resourceIndex) ==
    LET libIndex == At(thread.resourceTable.lib, resourceIndex)
    IN  IF st.error # "" THEN st
        ELSE IF At(thread.resourceTable.type, resourceIndex) # "library" THEN st
        ELSE IF libIndex = Null THEN st
        ELSE IF libIndex >= Len(thread.libs) THEN st
        ELSE [st EXCEPT !.map =
                 MapSet(@, LibKey(At(thread.libs, libIndex)),
                        ThreadLibSymbolicationInfo(thread, resourceIndex))]

\* One iteration of the loop over resource rows; st = [map, error].
CollectResource(thread, st, resourceIndex) ==
    LET libIndex == At(thread.resourceTable.lib, resourceIndex)
    IN  IF st.error # "" THEN st
        ELSE IF At(thread.resourceTable.type, resourceIndex) # "library" THEN st
        ELSE IF libIndex = Null THEN st
        ELSE IF libIndex >= Len(thread.libs)
        THEN [st EXCEPT !.error = "Did not find a lib."]
        ELSE [st EXCEPT !.map =
                 MapSet(@, LibKey(At(thread.libs, libIndex)),
                        ThreadLibSymbolicationInfo(thread, resourceIndex))]

RECURSIVE CollectLoop(_, _, _)
CollectLoop(thread, st, resourceIndex) ==
    IF resourceIndex >= thread.resourceTable.length THEN st
    ELSE CollectLoop(thread, CollectResource(thread, st, resourceIndex),
                     resourceIndex + 1)

GetThreadSymbolicationInfo(thread) ==
    CollectLoop(thread, [map |-> <<>>, error |-> ""], 0)

----------------------------------------------------------------------------
(* applySymbolicationStep, first loop: resolve a symbolAddress per frame   *)
(* and match symbolAddresses opportunistically with old frame symbols.     *)

\* A faulty fallback that never looks at the frame's existing native symbol.
ResolveAddressResultFromAddress(thread, resultsForLib, frameIndex) ==
    LET address == At(thread.frameTable.address, frameIndex)
    IN  IF address \in DOMAIN resultsForLib THEN resultsForLib[address]
        ELSE [symbolAddress |-> address,
              name |-> PlaceholderName(address),
              file |-> Undefined,
              line |-> Null]

\* The addressResult of the first loop: from resultsForLib, else from the
\* frame's existing native symbol, else a placeholder.
ResolveAddressResult(thread, resultsForLib, frameIndex) ==
    LET oldFrameSymbol == At(thread.frameTable.nativeSymbol, frameIndex)
        address == At(thread.frameTable.address, frameIndex)
    IN  IF address \in DOMAIN resultsForLib THEN resultsForLib[address]
        ELSE IF oldFrameSymbol # Null
        THEN [symbolAddress |-> At(thread.nativeSymbols.address, oldFrameSymbol),
              name |-> GetString(thread.stringTable,
                                 At(thread.nativeSymbols.name, oldFrameSymbol)),
              file |-> Undefined,
              line |-> Null]
        ELSE [symbolAddress |-> address,
              name |-> PlaceholderName(address),
              file |-> Undefined,
              line |-> Null]

\* A faulty test that does not look whether the old symbol is still available.
ClaimsOldFrameSymbolAgain(st, oldFrameSymbol, symbolAddress) ==
    /\ oldFrameSymbol # Null
    /\ ~MapHas(st.symbolAddressToCanonicalSymbolIndexMap, symbolAddress)

\* Whether the frame's old symbol becomes the canonical symbol of symbolAddress.
ClaimsOldFrameSymbol(st, oldFrameSymbol, symbolAddress) ==
    /\ oldFrameSymbol # Null
    /\ ~MapHas(st.symbolAddressToCanonicalSymbolIndexMap, symbolAddress)
    /\ SetHas(st.availableNativeSymbols, oldFrameSymbol)

ResolveFrame(thread, resultsForLib, st, frameIndex) ==
    LET oldFrameSymbol == At(thread.frameTable.nativeSymbol, frameIndex)
        addressResult == ResolveAddressResult(thread, resultsForLib, frameIndex)
        symbolAddress == addressResult.symbolAddress
        claims == ClaimsOldFrameSymbol(st, oldFrameSymbol, symbolAddress)
    IN  [frameToSymbolAddressMap |->
             MapSet(st.frameToSymbolAddressMap, frameIndex, symbolAddress),
         symbolAddressToNameMap |->
             MapSet(st.symbolAddressToNameMap, symbolAddress, addressResult.name),
         symbolAddressToCanonicalSymbolIndexMap |->
             IF claims
             THEN MapSet(st.symbolAddressToCanonicalSymbolIndexMap,
                         symbolAddress, oldFrameSymbol)
             ELSE st.symbolAddressToCanonicalSymbolIndexMap,
         availableNativeSymbols |->
             IF claims THEN SetDelete(st.availableNativeSymbols, oldFrameSymbol)
             ELSE st.availableNativeSymbols]

RECURSIVE ResolveLoop(_, _, _, _, _)
ResolveLoop(thread, resultsForLib, st, frames, i) ==
    IF i > Len(frames) THEN st
    ELSE ResolveLoop(thread, resultsForLib,
                     ResolveFrame(thread, resultsForLib, st, frames[i]),
                     frames, i + 1)

ResolveFrames(thread, info, resultsForLib) ==
    ResolveLoop(thread, resultsForLib,
                [frameToSymbolAddressMap |-> <<>>,
                 symbolAddressToNameMap |-> <<>>,
                 symbolAddressToCanonicalSymbolIndexMap |-> <<>>,
                 availableNativeSymbols |-> info.allNativeSymbolsForThisLib],
                info.allFramesForThisLib, 1)

----------------------------------------------------------------------------
(* Second loop: a canonical native symbol for every symbolAddress.         *)
(* st = [nativeSymbols, stringTable, canonical, iterator].                 *)

\* A faulty second loop that shares the last row of the table when the
\* library has no symbol left.
CanonicalizeSymbolSharingLast(libIndex, st, entry) ==
    LET symbolAddress == entry[1]
        symbolName == entry[2]
        interned == IndexForString(st.stringTable, symbolName)
        known == MapHas(st.canonical, symbolAddress)
        exhausted == st.iterator = <<>>
        shared == ~known /\ exhausted /\ st.nativeSymbols.length > 0
        symbolIndex ==
            IF known THEN MapGet(st.canonical, symbolAddress)
            ELSE IF ~exhausted THEN Head(st.iterator)
            ELSE IF shared THEN st.nativeSymbols.length - 1
            ELSE st.nativeSymbols.length
        grown ==
            IF ~known /\ exhausted /\ ~shared
            THEN [st.nativeSymbols EXCEPT
                     !.libIndex = SetAt(@, symbolIndex, libIndex),
                     !.length = @ + 1]
            ELSE st.nativeSymbols
    IN  [nativeSymbols |->
             [grown EXCEPT !.address = SetAt(@, symbolIndex, symbolAddress),
                           !.name = SetAt(@, symbolIndex, interned.index)],
         stringTable |-> interned.table,
         canonical |->
             IF known THEN st.canonical
             ELSE MapSet(st.canonical, symbolAddress, symbolIndex),
         iterator |->
             IF ~known /\ ~exhausted THEN Tail(st.iterator) ELSE st.iterator]

\* A faulty second loop that never repurposes a symbol of the library.
CanonicalizeSymbolAlwaysAppending(libIndex, st, entry) ==
    LET symbolAddress == entry[1]
        symbolName == entry[2]
        interned == IndexForString(st.stringTable, symbolName)
        known == MapHas(st.canonical, symbolAddress)
        symbolIndex ==
            IF known THEN MapGet(st.canonical, symbolAddress)
            ELSE st.nativeSymbols.length
        grown ==
            IF ~known
            THEN [st.nativeSymbols EXCEPT
                     !.libIndex = SetAt(@, symbolIndex, libIndex),
                     !.length = @ + 1]
            ELSE st.nativeSymbols
    IN  [nativeSymbols |->
             [grown EXCEPT !.address = SetAt(@, symbolIndex, symbolAddress),
                           !.name = SetAt(@, symbolIndex, interned.index)],
         stringTable |-> interned.table,
         canonical |->
             IF known THEN st.canonical
             ELSE MapSet(st.canonical, symbolAddress, symbolIndex),
         iterator |-> st.iterator]

\* A faulty second loop that only repurposes symbols the library has left.
CanonicalizeSymbolOnlyReusing(libIndex, st, entry) ==
    LET symbolAddress == entry[1]
        symbolName == entry[2]
        interned == IndexForString(st.stringTable, symbolName)
        known == MapHas(st.canonical, symbolAddress)
        exhausted == st.iterator = <<>>
        symbolIndex ==
            IF known THEN MapGet(st.canonical, symbolAddress)
            ELSE Head(st.iterator)
    IN  IF ~known /\ exhausted THEN st
        ELSE [nativeSymbols |->
                  [st.nativeSymbols EXCEPT
                      !.address = SetAt(@, symbolIndex, symbolAddress),
                      !.name = SetAt(@, symbolIndex, interned.index)],
              stringTable |-> interned.table,
              canonical |->
                  IF known THEN st.canonical
                  ELSE MapSet(st.canonical, symbolAddress, symbolIndex),
              iterator |-> IF known THEN st.iterator ELSE Tail(st.iterator)]

\* A faulty second loop that writes the new row without counting it.
CanonicalizeSymbolNotCounting(libIndex, st, entry) ==
    LET symbolAddress == entry[1]
        symbolName == entry[2]
        interned == IndexForString(st.stringTable, symbolName)
        known == MapHas(st.canonical, symbolAddress)
        exhausted == st.iterator = <<>>
        symbolIndex ==
            IF known THEN MapGet(st.canonical, symbolAddress)
            ELSE IF ~exhausted THEN Head(st.iterator)
            ELSE st.nativeSymbols.length
        grown ==
            IF ~known /\ exhausted
            THEN [st.nativeSymbols EXCEPT
                     !.libIndex = SetAt(@, symbolIndex, libIndex)]
            ELSE st.nativeSymbols
    IN  [nativeSymbols |->
             [grown EXCEPT !.address = SetAt(@, symbolIndex, symbolAddress),
                           !.name = SetAt(@, symbolIndex, interned.index)],
         stringTable |-> interned.table,
         canonical |->
             IF known THEN st.canonical
             ELSE MapSet(st.canonical, symbolAddress, symbolIndex),
         iterator |->
             IF ~known /\ ~exhausted THEN Tail(st.iterator) ELSE st.iterator]

CanonicalizeSymbol(libIndex, st, entry) ==
    LET symbolAddress == entry[1]
        symbolName == entry[2]
        interned == IndexForString(st.stringTable, symbolName)
        known == MapHas(st.canonical, symbolAddress)
        exhausted == st.iterator = <<>>
        symbolIndex ==
            IF known THEN MapGet(st.canonical, symbolAddress)
            ELSE IF ~exhausted THEN Head(st.iterator)
            ELSE st.nativeSymbols.length
        grown ==
            IF ~known /\ exhausted
            THEN [st.nativeSymbols EXCEPT
                     !.libIndex = SetAt(@, symbolIndex, libIndex),
                     !.length = @ + 1]
            ELSE st.nativeSymbols
    IN  [nativeSymbols |->
             [grown EXCEPT !.address = SetAt(@, symbolIndex, symbolAddress),
                           !.name = SetAt(@, symbolIndex, interned.index)],
         stringTable |-> interned.table,
         canonical |->
             IF known THEN st.canonical
             ELSE MapSet(st.canonical, symbolAddress, symbolIndex),
         iterator |->
             IF ~known /\ ~exhausted THEN Tail(st.iterator) ELSE st.iterator]

RECURSIVE CanonicalizeLoop(_, _, _, _)
CanonicalizeLoop(libIndex, st, entries, i) ==
    IF i > Len(entries) THEN st
    ELSE CanonicalizeLoop(libIndex, CanonicalizeSymbol(libIndex, st, entries[i]),
                          entries, i + 1)

\* newFrameTableNativeSymbolsColumn[frameIndex] for one entry of
\* frameToSymbolAddressMap; Null stands for the undefined that makes the
\* code throw.
\* A faulty assignment that only fills in frames without a native symbol.
FrameNativeSymbolKeepingOld(thread, canonical, frameIndex, symbolAddress) ==
    IF At(thread.frameTable.nativeSymbol, frameIndex) # Null
    THEN At(thread.frameTable.nativeSymbol, frameIndex)
    ELSE IF MapHas(canonical, symbolAddress) THEN MapGet(canonical, symbolAddress)
    ELSE Null

FrameNativeSymbol(thread, canonical, frameIndex, symbolAddress) ==
    IF MapHas(canonical, symbolAddress) THEN MapGet(canonical, symbolAddress)
    ELSE Null

RECURSIVE AssignNativeSymbols(_, _, _, _, _)
AssignNativeSymbols(thread, column, canonical, frameToSymbolAddressMap, i) ==
    IF i > Len(frameToSymbolAddressMap) THEN column
    ELSE AssignNativeSymbols(
             thread,
             SetAt(column, frameToSymbolAddressMap[i][1],
                   FrameNativeSymbol(thread, canonical,
                                     frameToSymbolAddressMap[i][1],
                                     frameToSymbolAddressMap[i][2])),
             canonical, frameToSymbolAddressMap, i + 1)

----------------------------------------------------------------------------
(* Third loop: group frames into funcs by function name and file name.     *)
(* st = [funcTable, stringTable, funcKeyToFuncMap, iterator, func, line,   *)
(*       entries, resolved]; resolved keeps, per frame, the name and file  *)
(* of the addressResult the loop grouped the frame by.                     *)

\* A faulty fallback that has no line for an address without a result.
FuncAddressResultWithoutLine(thread, resultsForLib, nativeSymbols, funcTable, stringTable, nativeSymbolIndex, frameIndex) ==
    LET oldFunc == At(thread.frameTable.func, frameIndex)
        address == At(thread.frameTable.address, frameIndex)
        fileNameIndex == At(funcTable.fileName, oldFunc)
    IN  IF address \in DOMAIN resultsForLib THEN resultsForLib[address]
        ELSE [symbolAddress |-> At(nativeSymbols.address, nativeSymbolIndex),
              name |-> GetString(stringTable,
                                 At(nativeSymbols.name, nativeSymbolIndex)),
              file |-> IF fileNameIndex # Null
                       THEN GetString(stringTable, fileNameIndex)
                       ELSE Undefined,
              line |-> Null]

\* The addressResult of the third loop.  For an address without a result
\* the name comes from the frame's new native symbol and the file from the
\* working funcTable row of the frame's old func.
FuncAddressResult(thread, resultsForLib, nativeSymbols, funcTable, stringTable, nativeSymbolIndex, frameIndex) ==
    LET oldFunc == At(thread.frameTable.func, frameIndex)
        address == At(thread.frameTable.address, frameIndex)
        fileNameIndex == At(funcTable.fileName, oldFunc)
    IN  IF address \in DOMAIN resultsForLib THEN resultsForLib[address]
        ELSE [symbolAddress |-> At(nativeSymbols.address, nativeSymbolIndex),
              name |-> GetString(stringTable,
                                 At(nativeSymbols.name, nativeSymbolIndex)),
              file |-> IF fileNameIndex # Null
                       THEN GetString(stringTable, fileNameIndex)
                       ELSE Undefined,
              line |-> At(thread.frameTable.line, frameIndex)]

\* A func row for a funcKey seen for the first time: the next available
\* func of the library, else a new row.
\* A faulty allocation that never reuses a func of the library.
NewFuncRowAlwaysAppending(funcTable, iterator, resourceIndex) ==
    [funcIndex |-> funcTable.length,
     funcTable |->
         [funcTable EXCEPT
             !.isJS = SetAt(@, funcTable.length, FALSE),
             !.relevantForJS = SetAt(@, funcTable.length, FALSE),
             !.resource = SetAt(@, funcTable.length, resourceIndex),
             !.lineNumber = SetAt(@, funcTable.length, Null),
             !.columnNumber = SetAt(@, funcTable.length, Null),
             !.length = @ + 1],
     iterator |-> iterator]

\* A faulty allocation that leaves the resource of a new row unset.
NewFuncRowWithoutResource(funcTable, iterator, resourceIndex) ==
    IF iterator # <<>>
    THEN [funcIndex |-> Head(iterator), funcTable |-> funcTable,
          iterator |-> Tail(iterator)]
    ELSE [funcIndex |-> funcTable.length,
          funcTable |->
              [funcTable EXCEPT
                  !.isJS = SetAt(@, funcTable.length, FALSE),
                  !.relevantForJS = SetAt(@, funcTable.length, FALSE),
                  !.resource = SetAt(@, funcTable.length, Null),
                  !.lineNumber = SetAt(@, funcTable.length, Null),
                  !.columnNumber = SetAt(@, funcTable.length, Null),
                  !.length = @ + 1],
          iterator |-> iterator]

\* A faulty allocation that takes func 0 when the library has no func left.
NewFuncRowTakingFirst(funcTable, iterator, resourceIndex) ==
    IF iterator # <<>>
    THEN [funcIndex |-> Head(iterator), funcTable |-> funcTable,
          iterator |-> Tail(iterator)]
    ELSE [funcIndex |-> 0, funcTable |-> funcTable, iterator |-> iterator]

NewFuncRow(funcTable, iterator, resourceIndex) ==
    IF iterator # <<>>
    THEN [funcIndex |-> Head(iterator), funcTable |-> funcTable,
          iterator |-> Tail(iterator)]
    ELSE [funcIndex |-> funcTable.length,
          funcTable |->
              [funcTable EXCEPT
                  !.isJS = SetAt(@, funcTable.length, FALSE),
                  !.relevantForJS = SetAt(@, funcTable.length, FALSE),
                  !.resource = SetAt(@, funcTable.length, resourceIndex),
                  !.lineNumber = SetAt(@, funcTable.length, Null),
                  !.columnNumber = SetAt(@, funcTable.length, Null),
                  !.length = @ + 1],
          iterator |-> iterator]

GroupFrame(thread, resultsForLib, nativeSymbols, nativeSymbolColumn, resourceIndex, st, frameIndex) ==
    LET oldFunc == At(thread.frameTable.func, frameIndex)
        nativeSymbolIndex == At(nativeSymbolColumn, frameIndex)
        addressResult ==
            FuncAddressResult(thread, resultsForLib, nativeSymbols, st.funcTable,
                              st.stringTable, nativeSymbolIndex, frameIndex)
        function == IndexForString(st.stringTable, addressResult.name)
        fileName ==
            IF addressResult.file # Undefined
            THEN IndexForString(function.table, addressResult.file)
            ELSE [table |-> function.table, index |-> Null]
        funcKey == FuncKey(function.index, fileName.index)
        known == MapHas(st.funcKeyToFuncMap, funcKey)
        row == NewFuncRow(st.funcTable, st.iterator, resourceIndex)
        funcIndex == IF known THEN MapGet(st.funcKeyToFuncMap, funcKey)
                     ELSE row.funcIndex
    IN  [funcTable |->
             IF known THEN st.funcTable
             ELSE [row.funcTable EXCEPT
                      !.name = SetAt(@, funcIndex, function.index),
                      !.fileName = SetAt(@, funcIndex, fileName.index)],
         stringTable |-> fileName.table,
         funcKeyToFuncMap |->
             IF known THEN st.funcKeyToFuncMap
             ELSE MapSet(st.funcKeyToFuncMap, funcKey, funcIndex),
         iterator |-> IF known THEN st.iterator ELSE row.iterator,
         func |-> SetAt(st.func, frameIndex, funcIndex),
         line |-> SetAt(st.line, frameIndex, addressResult.line),
         entries |-> Append(st.entries, <<oldFunc, funcIndex>>),
         resolved |->
             MapSet(st.resolved, frameIndex,
                    [name |-> addressResult.name, file |-> addressResult.file])]

RECURSIVE GroupLoop(_, _, _, _, _, _, _, _)
GroupLoop(thread, resultsForLib, nativeSymbols, nativeSymbolColumn, resourceIndex, st, frames, i) ==
    IF i > Len(frames) THEN st
    ELSE GroupLoop(thread, resultsForLib, nativeSymbols, nativeSymbolColumn,
                   resourceIndex,
                   GroupFrame(thread, resultsForLib, nativeSymbols,
                              nativeSymbolColumn, resourceIndex, st, frames[i]),
                   frames, i + 1)

\* A faulty merge that hands back the entries of this step only.
MergeMapReplacing(map, consensus, i) == consensus

\* oldFuncToNewFuncMap.set for every entry of the consensus map.
RECURSIVE MergeMap(_, _, _)
MergeMap(map, consensus, i) ==
    IF i > Len(consensus) THEN map
    ELSE MergeMap(MapSet(map, consensus[i][1], consensus[i][2]), consensus, i + 1)

----------------------------------------------------------------------------
(* applySymbolicationStep.  The result holds the returned thread, the      *)
(* input thread object as it reads after the call, the map after the call  *)
(* and the error thrown, if any.                                           *)

ApplySymbolicationStep(thread, symbolicationStepInfo, map) ==
    LET info == symbolicationStepInfo.threadLibSymbolicationInfo
        resultsForLib == symbolicationStepInfo.resultsForLib
        resolved == ResolveFrames(thread, info, resultsForLib)
        symbolsClone == ShallowCloneNativeSymbolTable(thread.nativeSymbols)
        symbols ==
            CanonicalizeLoop(
                info.libIndex,
                [nativeSymbols |-> symbolsClone.table,
                 stringTable |-> thread.stringTable,
                 canonical |-> resolved.symbolAddressToCanonicalSymbolIndexMap,
                 iterator |-> resolved.availableNativeSymbols],
                resolved.symbolAddressToNameMap, 1)
        symbolColumnCopy == Slice(thread.frameTable.nativeSymbol)
        nativeSymbolColumn ==
            AssignNativeSymbols(thread, symbolColumnCopy.elems,
                                symbols.canonical,
                                resolved.frameToSymbolAddressMap, 1)
        noCanonical ==
            \E i \in 1..Len(resolved.frameToSymbolAddressMap) :
                ~MapHas(symbols.canonical, resolved.frameToSymbolAddressMap[i][2])
        noSymbol ==
            \E i \in 1..Len(info.allFramesForThisLib) :
                At(nativeSymbolColumn, info.allFramesForThisLib[i]) = Null
        funcsClone == ShallowCloneFuncTable(thread.funcTable)
        funcColumnCopy == Slice(thread.frameTable.func)
        lineColumnCopy == Slice(thread.frameTable.line)
        grouped ==
            GroupLoop(thread, resultsForLib, symbols.nativeSymbols,
                      nativeSymbolColumn, info.resourceIndex,
                      [funcTable |-> funcsClone.table,
                       stringTable |-> symbols.stringTable,
                       funcKeyToFuncMap |-> <<>>,
                       iterator |-> info.allFuncsForThisLib,
                       func |-> funcColumnCopy.elems,
                       line |-> lineColumnCopy.elems,
                       entries |-> <<>>,
                       resolved |-> <<>>],
                      info.allFramesForThisLib, 1)
        frameTable ==
            [thread.frameTable EXCEPT !.func = grouped.func,
                                      !.nativeSymbol = nativeSymbolColumn,
                                      !.line = grouped.line]
        oldFuncToNewFuncMapForThisLib == MakeConsensusMap(grouped.entries)
    IN  IF noCanonical
        THEN [error |-> "Impossible, all symbolAddresses have a canonical symbol at this point.",
              thread |-> thread, input |-> thread, map |-> map,
              resolved |-> <<>>]
        ELSE IF noSymbol
        THEN [error |-> "Impossible, all frames now have native symbols.",
              thread |-> thread, input |-> thread, map |-> map,
              resolved |-> <<>>]
        ELSE [error |-> "",
              thread |->
                  [thread EXCEPT !.frameTable = frameTable,
                                 !.funcTable = grouped.funcTable,
                                 !.nativeSymbols = symbols.nativeSymbols,
                                 !.stringTable = grouped.stringTable],
              input |->
                  [thread EXCEPT
                      !.frameTable =
                          [@ EXCEPT
                              !.func = IF funcColumnCopy.sameObject
                                       THEN grouped.func ELSE @,
                              !.nativeSymbol = IF symbolColumnCopy.sameObject
                                               THEN nativeSymbolColumn ELSE @,
                              !.line = IF lineColumnCopy.sameObject
                                       THEN grouped.line ELSE @],
                      !.funcTable = IF funcsClone.sameObject
                                    THEN grouped.funcTable ELSE @,
                      !.nativeSymbols = IF symbolsClone.sameObject
                                        THEN symbols.nativeSymbols ELSE @,
                      !.stringTable = grouped.stringTable],
              map |-> MergeMap(map, oldFuncToNewFuncMapForThisLib, 1),
              resolved |-> grouped.resolved]

----------------------------------------------------------------------------
(* Profiles.  A processed, unsymbolicated thread has one resource of type  *)
(* library per lib, a func per native frame (frames may share one), an     *)
(* empty nativeSymbols table and null frame symbols.  Frame addresses are  *)
(* relative to the frame's lib.                                            *)

MaxSteps == 2

LibA == [debugName |-> <<"x", "u", "l">>, breakpadId |-> <<"A", "1">>]
LibB == [debugName |-> <<"n", "s", "s">>, breakpadId |-> <<"B", "2">>]

\* resources: <<type, lib>>; funcs: <<name, resource, isJS>>;
\* frames: <<address, func>>
MakeThread(libs, resources, funcs, frames) ==
    [libs |-> libs,
     resourceTable |->
         [length |-> Len(resources),
          type |-> [i \in 1..Len(resources) |-> resources[i][1]],
          lib |-> [i \in 1..Len(resources) |-> resources[i][2]]],
     stringTable |-> [i \in 1..Len(funcs) |-> funcs[i][1]],
     funcTable |->
         [length |-> Len(funcs),
          name |-> [i \in 1..Len(funcs) |-> i - 1],
          fileName |-> [i \in 1..Len(funcs) |-> Null],
          resource |-> [i \in 1..Len(funcs) |-> funcs[i][2]],
          isJS |-> [i \in 1..Len(funcs) |-> funcs[i][3]],
          relevantForJS |-> [i \in 1..Len(funcs) |-> FALSE],
          lineNumber |-> [i \in 1..Len(funcs) |-> Null],
          columnNumber |-> [i \in 1..Len(funcs) |-> Null]],
     nativeSymbols |->
         [length |-> 0, address |-> <<>>, name |-> <<>>, libIndex |-> <<>>],
     frameTable |->
         [length |-> Len(frames),
          address |-> [i \in 1..Len(frames) |-> frames[i][1]],
          func |-> [i \in 1..Len(frames) |-> frames[i][2]],
          nativeSymbol |-> [i \in 1..Len(frames) |-> Null],
          line |-> [i \in 1..Len(frames) |-> Null]]]

\* One func per frame: a JS frame, two frames of LibA around one of LibB.
ThreadOneFuncPerFrame ==
    MakeThread(<<LibA, LibB>>,
               <<<<"url", Null>>, <<"library", 0>>, <<"library", 1>>>>,
               <<<<"js", 0, TRUE>>, <<"0xa", 1, FALSE>>,
                 <<"0x0", 2, FALSE>>, <<"0x0", 1, FALSE>>>>,
               <<<<Null, 0>>, <<10, 1>>, <<0, 2>>, <<0, 3>>>>)

\* The thread a step on LibA returns, with the info collected from the
\* thread the step is applied to.
SymbolicatedLibA(thread, resultsForLib) ==
    CHOOSE returned \in
        {ApplySymbolicationStep(
             thread,
             [threadLibSymbolicationInfo |-> info,
              resultsForLib |-> resultsForLib],
             <<>>).thread :
         info \in {MapGet(GetThreadSymbolicationInfo(thread).map,
                          LibKey(LibA))}} : TRUE

\* The thread as a profile loaded from a file has it: LibA was symbolicated
\* with a table that puts both frames into one function, and the func table
\* was cut back to the funcs in use.
ThreadReloaded ==
    LET symbol == [symbolAddress |-> 0, name |-> "f",
                   file |-> Undefined, line |-> Null]
    IN  CHOOSE reloaded \in
            {[merged EXCEPT !.funcTable.length = 3] :
             merged \in {SymbolicatedLibA(ThreadOneFuncPerFrame,
                                          [a \in {0, 10} |-> symbol])}} : TRUE

\* The thread after LibA was symbolicated with a table of two functions and
\* then with a table of one: the second func and the second native symbol
\* of LibA are rows no frame uses.
ThreadResymbolicated ==
    LET f == [symbolAddress |-> 0, name |-> "f",
              file |-> Undefined, line |-> Null]
        g == [symbolAddress |-> 10, name |-> "g",
              file |-> Undefined, line |-> Null]
    IN  CHOOSE merged \in
            {SymbolicatedLibA(split, [a \in {0, 10} |-> f]) :
             split \in {SymbolicatedLibA(
                            ThreadOneFuncPerFrame,
                            [a \in {0, 10} |-> IF a = 0 THEN f ELSE g])}} : TRUE

InitialThreads == {ThreadOneFuncPerFrame, ThreadReloaded, ThreadResymbolicated}

----------------------------------------------------------------------------
(* The symbol provider's answers.  For an address the provider has either  *)
(* no result, or a symbol that starts at 0 or at the address itself, with  *)
(* one of a few names, files and lines.                                    *)

AddressResults(address) ==
    {[symbolAddress |-> 0, name |-> "f", file |-> Undefined, line |-> Null],
     [symbolAddress |-> 0, name |-> "f", file |-> "x.c", line |-> 7],
     [symbolAddress |-> 0, name |-> "g", file |-> Undefined, line |-> Null],
     [symbolAddress |-> address, name |-> "g", file |-> Undefined, line |-> Null]}

\* Every Map<Address, AddressResult> over a subset of the addresses.
ResultsForAddresses(addresses) ==
    UNION {{r \in [covered -> UNION {AddressResults(a) : a \in covered}] :
               \A a \in covered : r[a] \in AddressResults(a)} :
           covered \in SUBSET addresses}

----------------------------------------------------------------------------
(* The caller: one symbolication step of one library of one thread, with   *)
(* the info collected from the thread the step is applied to.              *)

NoStep == [valid |-> FALSE]

NoConsensus == [pairs |-> <<>>, map |-> <<>>]

NoRun ==
    [pc |-> "idle", number |-> 0, requests |-> <<>>, outcomes |-> <<>>,
     calls |-> <<>>, start |-> <<>>, providerCalls |-> 0, error |-> <<>>]

Init ==
    /\ threads \in {<<t>> : t \in InitialThreads}
    /\ symbolicationInfo = <<<<>>>>
    /\ oldFuncToNewFuncMap = <<<<>>>>
    /\ last = NoStep
    /\ prev = NoStep
    /\ nSteps = 0
    /\ run = NoRun
    /\ consensusCall = NoConsensus

\* applySymbolicationStep on the thread of the store, which then holds the
\* returned thread.
Step(threadIndex, libKey, info, resultsForLib, map) ==
    /\ nSteps < MaxSteps
    /\ \E result \in
           {ApplySymbolicationStep(
                At(threads, threadIndex),
                [threadLibSymbolicationInfo |-> info,
                 resultsForLib |-> resultsForLib],
                map)} :
           /\ threads' = SetAt(threads, threadIndex, result.thread)
           /\ oldFuncToNewFuncMap' =
                  SetAt(oldFuncToNewFuncMap, threadIndex, result.map)
           /\ last' = [valid |-> TRUE,
                       threadIndex |-> threadIndex,
                       libKey |-> libKey,
                       info |-> info,
                       resultsForLib |-> resultsForLib,
                       before |-> At(threads, threadIndex),
                       input |-> result.input,
                       thread |-> result.thread,
                       mapBefore |-> map,
                       mapAfter |-> result.map,
                       resolved |-> result.resolved,
                       error |-> result.error]
    /\ prev' = last
    /\ nSteps' = nSteps + 1
    /\ UNCHANGED <<run, consensusCall>>

\* The info is collected from the thread, the provider answers for one of
\* its libraries, and the step is applied.
SymbolicateLib(threadIndex, map) ==
    \E collected \in {GetThreadSymbolicationInfo(At(threads, threadIndex))} :
        /\ collected.error = ""
        /\ symbolicationInfo' =
               SetAt(symbolicationInfo, threadIndex, collected.map)
        /\ \E i \in 1..Len(collected.map) :
               \E resultsForLib \in
                   ResultsForAddresses(
                       SetElems(collected.map[i][2].frameAddresses)) :
                   Step(threadIndex, collected.map[i][1], collected.map[i][2],
                        resultsForLib, map)

\* The caller hands the step a new Map.
StepWithNewMap ==
    \E threadIndex \in 0..(Len(threads) - 1) :
        SymbolicateLib(threadIndex, <<>>)

\* The caller hands the step the map an earlier step has filled.
StepWithSameMap ==
    \E threadIndex \in 0..(Len(threads) - 1) :
        /\ At(oldFuncToNewFuncMap, threadIndex) # <<>>
        /\ SymbolicateLib(threadIndex, At(oldFuncToNewFuncMap, threadIndex))

Next == StepWithNewMap \/ StepWithSameMap

Spec == Init /\ [][Next]_vars


----------------------------------------------------------------------------
(* buildLibSymbolicationRequestsForAllThreads.                             *)

\* A faulty loop that collects the addresses in a list.
RECURSIVE AddAddressesKeepingDuplicates(_, _, _)
AddAddressesKeepingDuplicates(addressSet, frameAddresses, i) ==
    IF i > Len(frameAddresses) THEN addressSet
    ELSE AddAddressesKeepingDuplicates(Append(addressSet, frameAddresses[i]),
                                       frameAddresses, i + 1)

RECURSIVE AddAddresses(_, _, _)
AddAddresses(addressSet, frameAddresses, i) ==
    IF i > Len(frameAddresses) THEN addressSet
    ELSE AddAddresses(SetAdd(addressSet, frameAddresses[i]), frameAddresses, i + 1)

\* The inner loop over the entries of one thread's map.
RECURSIVE AddressesOfThread(_, _, _)
AddressesOfThread(libKeyToAddressesMap, threadSymbolicationInfo, i) ==
    IF i > Len(threadSymbolicationInfo) THEN libKeyToAddressesMap
    ELSE LET libKey == threadSymbolicationInfo[i][1]
             addressSet == IF MapHas(libKeyToAddressesMap, libKey)
                           THEN MapGet(libKeyToAddressesMap, libKey)
                           ELSE <<>>
         IN  AddressesOfThread(
                 MapSet(libKeyToAddressesMap, libKey,
                        AddAddresses(addressSet,
                                     threadSymbolicationInfo[i][2].frameAddresses, 1)),
                 threadSymbolicationInfo, i + 1)

RECURSIVE AddressesOfThreads(_, _, _)
AddressesOfThreads(libKeyToAddressesMap, info, i) ==
    IF i > Len(info) THEN libKeyToAddressesMap
    ELSE AddressesOfThreads(AddressesOfThread(libKeyToAddressesMap, info[i], 1),
                            info, i + 1)

\* libKey.split('/'): the pieces between the slashes.
RECURSIVE Split(_, _, _)
Split(chars, current, parts) ==
    IF chars = <<>> THEN Append(parts, current)
    ELSE IF Head(chars) = "/"
    THEN Split(Tail(chars), <<>>, Append(parts, current))
    ELSE Split(Tail(chars), Append(current, Head(chars)), parts)

\* const [debugName, breakpadId] = libKey.split('/')
LibOfKey(libKey) ==
    LET parts == Split(libKey, <<>>, <<>>)
    IN  [debugName |-> parts[1],
         breakpadId |-> IF Len(parts) >= 2 THEN parts[2]
                        ELSE <<"u", "n", "d", "e", "f", "i", "n", "e", "d">>]

BuildLibSymbolicationRequestsForAllThreads(info) ==
    LET libKeyToAddressesMap == AddressesOfThreads(<<>>, info, 1)
    IN  [i \in 1..Len(libKeyToAddressesMap) |->
            [lib |-> LibOfKey(libKeyToAddressesMap[i][1]),
             addresses |-> libKeyToAddressesMap[i][2]]]

----------------------------------------------------------------------------
(* finishSymbolicationForLib: the step callback invocations it makes, in   *)
(* order.                                                                  *)

StepCall(info, resultsForLib, libKey, threadIndex) ==
    [threadIndex |-> threadIndex,
     libKey |-> libKey,
     symbolicationStep |->
         [threadLibSymbolicationInfo |-> MapGet(At(info, threadIndex), libKey),
          resultsForLib |-> resultsForLib]]

\* A faulty loop that stops at the first thread without an entry.
RECURSIVE FinishUntilMissing(_, _, _, _, _, _)
FinishUntilMissing(profileThreads, info, resultsForLib, libKey, threadIndex, calls) ==
    IF threadIndex >= Len(profileThreads) THEN calls
    ELSE IF ~MapHas(At(info, threadIndex), libKey) THEN calls
    ELSE FinishUntilMissing(
             profileThreads, info, resultsForLib, libKey, threadIndex + 1,
             Append(calls, StepCall(info, resultsForLib, libKey, threadIndex)))

FinishSymbolicationForLibUntilMissing(profileThreads, info, resultsForLib, libKey) ==
    FinishUntilMissing(profileThreads, info, resultsForLib, libKey, 0, <<>>)

RECURSIVE FinishLoop(_, _, _, _, _, _)
FinishLoop(profileThreads, info, resultsForLib, libKey, threadIndex, calls) ==
    IF threadIndex >= Len(profileThreads) THEN calls
    ELSE FinishLoop(
             profileThreads, info, resultsForLib, libKey, threadIndex + 1,
             IF ~MapHas(At(info, threadIndex), libKey) THEN calls
             ELSE Append(calls, StepCall(info, resultsForLib, libKey, threadIndex)))

FinishSymbolicationForLib(profileThreads, info, resultsForLib, libKey) ==
    FinishLoop(profileThreads, info, resultsForLib, libKey, 0, <<>>)

----------------------------------------------------------------------------
(* symbolicateProfile and its two callbacks.                               *)

InstanceOfSymbolsNotFoundError(error) == error.class = "SymbolsNotFoundError"

\* A faulty failure callback that rethrows every error.
FailureCallbackRethrowingAll(request, error) ==
    [thrown |-> <<error>>, warned |-> <<>>]

\* A faulty failure callback that logs every error.
FailureCallbackLoggingAll(request, error) ==
    [thrown |-> <<>>, warned |-> <<error>>]

\* The failure callback: what it throws and what it hands to console.warn.
FailureCallback(request, error) ==
    IF ~InstanceOfSymbolsNotFoundError(error)
    THEN [thrown |-> <<error>>, warned |-> <<>>]
    ELSE [thrown |-> <<>>, warned |-> <<error>>]

\* The success callback: the library key it rebuilds from the request.
SuccessCallbackLibKey(request) == LibKey(request.lib)

\* The caller's step callback: it applies the step to the thread it names
\* and commits the returned thread and map.
RECURSIVE CommitSteps(_, _, _)
CommitSteps(st, calls, i) ==
    IF i > Len(calls) THEN st
    ELSE LET threadIndex == calls[i].threadIndex
             result == ApplySymbolicationStep(At(st.threads, threadIndex),
                                              calls[i].symbolicationStep,
                                              At(st.maps, threadIndex))
         IN  CommitSteps([threads |-> SetAt(st.threads, threadIndex, result.thread),
                          maps |-> SetAt(st.maps, threadIndex, result.map)],
                         calls, i + 1)

----------------------------------------------------------------------------
(* Symbolication runs over a profile of two threads.  The symbol provider  *)
(* answers every request once, with the results of a symbol table or with  *)
(* an error.                                                               *)

MaxRuns == 2

\* A thread whose only resource with a lib is LibA, at lib index 1; it also
\* has a library resource without a lib index.
ThreadOnlyLibA ==
    MakeThread(<<LibB, LibA>>,
               <<<<"library", 1>>, <<"url", Null>>, <<"library", Null>>>>,
               <<<<"0x5", 0, FALSE>>, <<"js", 1, TRUE>>,
                 <<"0xa", 0, FALSE>>, <<"p", 2, FALSE>>>>,
               <<<<5, 0>>, <<Null, 1>>, <<10, 2>>, <<3, 3>>>>)

RunThreads == <<ThreadOnlyLibA, ThreadOneFuncPerFrame>>

\* A thread with a library resource whose lib index has no row in libs.
ThreadWithoutLibRow ==
    MakeThread(<<LibA>>,
               <<<<"library", 0>>, <<"library", 1>>>>,
               <<<<"0x4", 0, FALSE>>, <<"0x6", 1, FALSE>>>>,
               <<<<4, 0>>, <<6, 1>>>>)

MalformedThreads == <<ThreadOnlyLibA, ThreadWithoutLibRow>>

\* A thread in which LibA has two rows in libs and a resource for each.
ThreadTwiceLibA ==
    MakeThread(<<LibA, LibA>>,
               <<<<"library", 0>>, <<"library", 1>>>>,
               <<<<"0x4", 0, FALSE>>, <<"0x6", 1, FALSE>>>>,
               <<<<4, 0>>, <<6, 1>>>>)

SameKeyThreads == <<ThreadOnlyLibA, ThreadTwiceLibA>>

\* A symbol table with one function, and one with a second function that
\* starts at address 8.
CoarseTable(address) ==
    [symbolAddress |-> 0, name |-> "f", file |-> Undefined, line |-> Null]

FineTable(address) ==
    IF address < 8
    THEN [symbolAddress |-> 0, name |-> "f", file |-> Undefined, line |-> Null]
    ELSE [symbolAddress |-> 8, name |-> "g", file |-> "x.c", line |-> 7]

\* The results for a request: a table's answer for every address, or for
\* the addresses from 8 on only.
ProviderResults(addresses) ==
    {[a \in SetElems(addresses) |-> CoarseTable(a)],
     [a \in SetElems(addresses) |-> FineTable(a)],
     [a \in {b \in SetElems(addresses) : b >= 8} |-> FineTable(a)]}

ProviderErrors ==
    {[class |-> "SymbolsNotFoundError", message |-> "no symbol table"],
     [class |-> "Error", message |-> "network"]}

NoOutcome ==
    [kind |-> "pending", results |-> <<>>, error |-> <<>>,
     thrown |-> <<>>, warned |-> <<>>]

AllAttempted == \A r \in 1..Len(run.outcomes) : run.outcomes[r].kind # "pending"

InitRun ==
    /\ threads \in {RunThreads, MalformedThreads, SameKeyThreads}
    /\ symbolicationInfo = [i \in 1..Len(RunThreads) |-> <<>>]
    /\ oldFuncToNewFuncMap = [i \in 1..Len(RunThreads) |-> <<>>]
    /\ last = NoStep
    /\ prev = NoStep
    /\ nSteps = 0
    /\ run = NoRun
    /\ consensusCall = NoConsensus

\* symbolicateProfile up to the await: collect, aggregate, call the provider.
StartRun ==
    /\ run.pc \in {"idle", "done", "failed"}
    /\ AllAttempted
    /\ run.number < MaxRuns
    /\ \E collected \in {[i \in 1..Len(threads) |->
                            GetThreadSymbolicationInfo(threads[i])]} :
           IF \E i \in 1..Len(collected) : collected[i].error # ""
           THEN /\ run' = [NoRun EXCEPT
                              !.pc = "failed",
                              !.number = run.number + 1,
                              !.start = threads,
                              !.error = <<[class |-> "Error",
                                           message |-> "Did not find a lib."]>>]
                /\ UNCHANGED symbolicationInfo
           ELSE \E info \in {[i \in 1..Len(collected) |-> collected[i].map]} :
                \E requests \in {BuildLibSymbolicationRequestsForAllThreads(info)} :
                    /\ symbolicationInfo' = info
                    /\ run' = [pc |-> "awaiting",
                               number |-> run.number + 1,
                               requests |-> requests,
                               outcomes |-> [r \in 1..Len(requests) |-> NoOutcome],
                               calls |-> <<>>,
                               start |-> threads,
                               providerCalls |-> 1,
                               error |-> <<>>]
    /\ oldFuncToNewFuncMap' = [i \in 1..Len(threads) |-> <<>>]
    /\ UNCHANGED <<threads, last, prev, nSteps, consensusCall>>

\* The provider reports the results of one library: the success callback.
ProviderSucceeds ==
    \E r \in 1..Len(run.requests) :
        /\ run.pc \in {"awaiting", "failed"}
        /\ run.outcomes[r].kind = "pending"
        /\ \E results \in ProviderResults(run.requests[r].addresses) :
           \E calls \in {FinishSymbolicationForLib(
                             threads, symbolicationInfo, results,
                             SuccessCallbackLibKey(run.requests[r]))} :
           \E committed \in {CommitSteps([threads |-> threads,
                                          maps |-> oldFuncToNewFuncMap],
                                         calls, 1)} :
               /\ threads' = committed.threads
               /\ oldFuncToNewFuncMap' = committed.maps
               /\ run' = [run EXCEPT
                             !.outcomes[r] =
                                 [NoOutcome EXCEPT !.kind = "success",
                                                   !.results = results],
                             !.calls = @ \o calls]
        /\ UNCHANGED <<symbolicationInfo, last, prev, nSteps, consensusCall>>

\* The provider reports an error for one library: the failure callback.
ProviderFails ==
    \E r \in 1..Len(run.requests) :
        /\ run.pc \in {"awaiting", "failed"}
        /\ run.outcomes[r].kind = "pending"
        /\ \E error \in ProviderErrors :
           \E outcome \in {FailureCallback(run.requests[r], error)} :
               run' = [run EXCEPT
                          !.outcomes[r] =
                              [NoOutcome EXCEPT !.kind = "failure",
                                                !.error = <<error>>,
                                                !.thrown = outcome.thrown,
                                                !.warned = outcome.warned],
                          !.pc = IF outcome.thrown # <<>> THEN "failed" ELSE @,
                          !.error = IF @ = <<>> THEN outcome.thrown ELSE @]
        /\ UNCHANGED <<threads, symbolicationInfo, oldFuncToNewFuncMap,
                       last, prev, nSteps, consensusCall>>

\* Every library was attempted and nothing was thrown: the task completes.
CompleteRun ==
    /\ run.pc = "awaiting"
    /\ AllAttempted
    /\ run' = [run EXCEPT !.pc = "done"]
    /\ UNCHANGED <<threads, symbolicationInfo, oldFuncToNewFuncMap,
                   last, prev, nSteps, consensusCall>>

NextRun == StartRun \/ ProviderSucceeds \/ ProviderFails \/ CompleteRun

SpecRun == InitRun /\ [][NextRun]_vars

----------------------------------------------------------------------------
(* makeConsensusMap on its own: the pairs arrive one by one and the map is *)
(* the one the function returns for the pairs so far.                      *)

MaxPairs == 3

ConsensusKeys == {1, 2}

\* The values of pairs: two func indexes and undefined.
ConsensusValues == {Null, 3, 4}

InitConsensus ==
    /\ threads = <<>>
    /\ symbolicationInfo = <<>>
    /\ oldFuncToNewFuncMap = <<>>
    /\ last = NoStep
    /\ prev = NoStep
    /\ nSteps = 0
    /\ run = NoRun
    /\ consensusCall = [pairs |-> <<>>, map |-> MakeConsensusMap(<<>>)]

\* makeConsensusMap is called with one more pair.
PushPair ==
    /\ Len(consensusCall.pairs) < MaxPairs
    /\ \E key \in ConsensusKeys, value \in ConsensusValues :
       \E pairs \in {Append(consensusCall.pairs, <<key, value>>)} :
           consensusCall' = [pairs |-> pairs, map |-> MakeConsensusMap(pairs)]
    /\ UNCHANGED <<threads, symbolicationInfo, oldFuncToNewFuncMap,
                   last, prev, nSteps, run>>

NextConsensus == PushPair

SpecConsensus == InitConsensus /\ [][NextConsensus]_vars

----------------------------------------------------------------------------
(* Properties of a single applySymbolicationStep call.  last is the most   *)
(* recent call and prev the one before it.                                 *)

Applied(step) == step.valid /\ step.error = ""

LibFramesOf(step) == SetElems(step.info.allFramesForThisLib)

AllFramesOf(step) ==
    IF step.valid THEN 0..(step.before.frameTable.length - 1) ELSE {}

OldFunc(step, frame) == At(step.before.frameTable.func, frame)

NewFunc(step, frame) == At(step.thread.frameTable.func, frame)

NewSymbol(step, frame) == At(step.thread.frameTable.nativeSymbol, frame)

\* The symbolAddress a frame resolves to: the one resultsForLib gives for
\* the frame's address, else the address of the frame's existing native
\* symbol, else the frame's address.
SymbolAddressOf(step, frame) ==
    LET address == At(step.before.frameTable.address, frame)
        oldSymbol == At(step.before.frameTable.nativeSymbol, frame)
    IN  IF address \in DOMAIN step.resultsForLib
        THEN step.resultsForLib[address].symbolAddress
        ELSE IF oldSymbol # Null
        THEN At(step.before.nativeSymbols.address, oldSymbol)
        ELSE address

\* The (function name, file name) pair the step grouped the frame by.
ResolvedPairOf(step, frame) == MapGet(step.resolved, frame)

\* C1 (merge correctness): after a step, any two frames of the library
\* that resolve to the same symbolAddress have the same value in the
\* returned nativeSymbol column.
MergeCorrectness ==
    Applied(last) =>
        \A f1, f2 \in LibFramesOf(last) :
            SymbolAddressOf(last, f1) = SymbolAddressOf(last, f2)
                => NewSymbol(last, f1) = NewSymbol(last, f2)

\* Two frames that had different native symbols resolve to one
\* symbolAddress, one of them through the fallback.
MergeCorrectnessWitness ==
    /\ Applied(last)
    /\ \E f1, f2 \in LibFramesOf(last) :
           /\ At(last.before.frameTable.address, f1) \in DOMAIN last.resultsForLib
           /\ At(last.before.frameTable.address, f2) \notin DOMAIN last.resultsForLib
           /\ At(last.before.frameTable.nativeSymbol, f1) # Null
           /\ At(last.before.frameTable.nativeSymbol, f2) # Null
           /\ At(last.before.frameTable.nativeSymbol, f1)
                  # At(last.before.frameTable.nativeSymbol, f2)
           /\ SymbolAddressOf(last, f1) = SymbolAddressOf(last, f2)
           /\ NewSymbol(last, f1) = NewSymbol(last, f2)

\* C2 (func grouping): after a step, two frames of the library have the
\* same value in the returned func column if and only if the (function
\* name, file name) pairs they were resolved to are equal.
FuncGrouping ==
    Applied(last) =>
        \A f1, f2 \in LibFramesOf(last) :
            (NewFunc(last, f1) = NewFunc(last, f2))
                <=> (ResolvedPairOf(last, f1) = ResolvedPairOf(last, f2))

\* Two frames that shared a func resolve to the same function name in
\* different files and end up in different funcs.
FuncGroupingWitness ==
    /\ Applied(last)
    /\ \E f1, f2 \in LibFramesOf(last) :
           /\ OldFunc(last, f1) = OldFunc(last, f2)
           /\ ResolvedPairOf(last, f1).name = ResolvedPairOf(last, f2).name
           /\ ResolvedPairOf(last, f1).file # ResolvedPairOf(last, f2).file
           /\ NewFunc(last, f1) # NewFunc(last, f2)

\* The map passed to the step has no key among the library's funcs.
MapIsForOtherLibs(step) ==
    MapKeys(step.mapBefore) \cap SetElems(step.info.allFuncsForThisLib) = {}

\* C3 (consensus soundness): when the step is called with a map that has
\* no key in allFuncsForThisLib, every key k of the map after the step
\* that was the func of some library frame before the step has every frame
\* that had func k before the step at func map[k] in the returned thread,
\* and an old func whose frames end the step with two or more distinct new
\* funcs is not a key of the map.
ConsensusSoundness ==
    (Applied(last) /\ MapIsForOtherLibs(last)) =>
        /\ \A k \in MapKeys(last.mapAfter) :
               (\E g \in LibFramesOf(last) : OldFunc(last, g) = k) =>
                   \A f \in AllFramesOf(last) :
                       OldFunc(last, f) = k
                           => NewFunc(last, f) = MapGet(last.mapAfter, k)
        /\ \A f1, f2 \in AllFramesOf(last) :
               (/\ OldFunc(last, f1) = OldFunc(last, f2)
                /\ NewFunc(last, f1) # NewFunc(last, f2))
                   => ~MapHas(last.mapAfter, OldFunc(last, f1))

\* A step that is handed the entries of another library splits a func.
ConsensusSoundnessWitness ==
    /\ Applied(last)
    /\ MapIsForOtherLibs(last)
    /\ last.mapBefore # <<>>
    /\ \E f1, f2 \in LibFramesOf(last) :
           /\ OldFunc(last, f1) = OldFunc(last, f2)
           /\ NewFunc(last, f1) # NewFunc(last, f2)
           /\ ~MapHas(last.mapAfter, OldFunc(last, f1))

\* Scenario B: the previous step merged frames f1 and f2 of the library
\* into one func, and this step, applied to its output, resolves them to
\* different function names.
SplitsMergedFunc(f1, f2) ==
    /\ Applied(prev)
    /\ Applied(last)
    /\ last.threadIndex = prev.threadIndex
    /\ last.libKey = prev.libKey
    /\ last.before = prev.thread
    /\ f1 \in LibFramesOf(prev) /\ f1 \in LibFramesOf(last)
    /\ f2 \in LibFramesOf(prev) /\ f2 \in LibFramesOf(last)
    /\ OldFunc(prev, f1) # OldFunc(prev, f2)
    /\ NewFunc(prev, f1) = NewFunc(prev, f2)
    /\ ResolvedPairOf(last, f1).name # ResolvedPairOf(last, f2).name

\* C4 (Scenario B split) as stated: after the second step the two frames
\* have distinct funcs and F is not a key of the map, also when the map
\* passed to the second step still holds an entry for F.
SplitForgetsMergedFunc ==
    \A f1, f2 \in AllFramesOf(last) :
        SplitsMergedFunc(f1, f2) =>
            /\ NewFunc(last, f1) # NewFunc(last, f2)
            /\ ~MapHas(last.mapAfter, NewFunc(prev, f1))

\* C4 (Scenario B split), amended: after the second step the two frames
\* have distinct funcs, and F is not a key of the map when the map passed
\* to the second step held no entry for F.
SplitForgetsMergedFuncOfFreshMap ==
    \A f1, f2 \in AllFramesOf(last) :
        SplitsMergedFunc(f1, f2) =>
            /\ NewFunc(last, f1) # NewFunc(last, f2)
            /\ ~MapHas(last.mapBefore, NewFunc(prev, f1))
                   => ~MapHas(last.mapAfter, NewFunc(prev, f1))

\* A merge followed by a split that starts from a map without F.
SplitForgetsMergedFuncWitness ==
    \E f1, f2 \in AllFramesOf(last) :
        /\ SplitsMergedFunc(f1, f2)
        /\ ~MapHas(last.mapBefore, NewFunc(prev, f1))
        /\ NewFunc(last, f1) # NewFunc(last, f2)

\* C5 (consensus completeness): after a step, an old func A of the
\* library whose frames were all assigned the same new func B has the
\* entry A -> B in the map, also when B = A.
ConsensusCompleteness ==
    Applied(last) =>
        \A f \in LibFramesOf(last) :
            (\A g \in LibFramesOf(last) :
                 OldFunc(last, g) = OldFunc(last, f)
                     => NewFunc(last, g) = NewFunc(last, f))
                => /\ MapHas(last.mapAfter, OldFunc(last, f))
                   /\ MapGet(last.mapAfter, OldFunc(last, f)) = NewFunc(last, f)

\* A func is merged into another one and replaces the entry the map held
\* for it.
ConsensusCompletenessWitness ==
    /\ Applied(last)
    /\ \E f \in LibFramesOf(last) :
           /\ NewFunc(last, f) # OldFunc(last, f)
           /\ \A g \in LibFramesOf(last) :
                  OldFunc(last, g) = OldFunc(last, f)
                      => NewFunc(last, g) = NewFunc(last, f)
           /\ MapHas(last.mapBefore, OldFunc(last, f))
           /\ MapGet(last.mapBefore, OldFunc(last, f)) # NewFunc(last, f)
           /\ MapGet(last.mapAfter, OldFunc(last, f)) = NewFunc(last, f)

\* C6 (non-destructive update): after a step returns, the input thread's
\* frameTable, funcTable and nativeSymbols read as they did before the
\* call.
NonDestructiveUpdate ==
    Applied(last) =>
        /\ last.input.frameTable = last.before.frameTable
        /\ last.input.funcTable = last.before.funcTable
        /\ last.input.nativeSymbols = last.before.nativeSymbols

\* A step whose returned thread differs from the input in all three
\* tables.
NonDestructiveUpdateWitness ==
    /\ Applied(last)
    /\ last.thread.frameTable.func # last.before.frameTable.func
    /\ last.thread.frameTable.nativeSymbol # last.before.frameTable.nativeSymbol
    /\ last.thread.funcTable.length > last.before.funcTable.length
    /\ last.thread.nativeSymbols.length > last.before.nativeSymbols.length

\* The step is the previous step again, applied to the previous output.
Reapplied ==
    /\ Applied(prev)
    /\ Applied(last)
    /\ last.threadIndex = prev.threadIndex
    /\ last.libKey = prev.libKey
    /\ last.before = prev.thread
    /\ last.resultsForLib = prev.resultsForLib

\* C7 (idempotent re-application): applying the same step a second time to
\* the output of the first application leaves funcTable.length and
\* nativeSymbols.length unchanged.
IdempotentReapplication ==
    Reapplied =>
        /\ last.thread.funcTable.length = last.before.funcTable.length
        /\ last.thread.nativeSymbols.length = last.before.nativeSymbols.length

\* The first application added a func and native symbols, with one address
\* missing from the results.
IdempotentReapplicationWitness ==
    /\ Reapplied
    /\ prev.thread.funcTable.length > prev.before.funcTable.length
    /\ prev.thread.nativeSymbols.length > prev.before.nativeSymbols.length
    /\ \E f \in LibFramesOf(last) :
           At(last.before.frameTable.address, f) \notin DOMAIN last.resultsForLib

----------------------------------------------------------------------------
(* Properties of a symbolicateProfile run.                                 *)

ThreadIndexes == 0..(Len(threads) - 1)

Requests == 1..Len(run.requests)

RequestKey(r) == LibKey(run.requests[r].lib)

Succeeded(r) == run.outcomes[r].kind = "success"

Failed(r) == run.outcomes[r].kind = "failure"

NotFound(r) ==
    Failed(r) /\ InstanceOfSymbolsNotFoundError(run.outcomes[r].error[1])

\* The run's collector output for thread threadIndex has an entry for libKey.
HasEntry(threadIndex, libKey) == MapHas(At(symbolicationInfo, threadIndex), libKey)

EntryOf(threadIndex, libKey) == MapGet(At(symbolicationInfo, threadIndex), libKey)

\* The positions of the step callback invocations for a pair.
CallsFor(threadIndex, libKey) ==
    {i \in 1..Len(run.calls) :
        /\ run.calls[i].threadIndex = threadIndex
        /\ run.calls[i].libKey = libKey}

FuncName(thread, frame) ==
    GetString(thread.stringTable,
              At(thread.funcTable.name, At(thread.frameTable.func, frame)))

\* The frame reads in the profile as it did when the run started.
FrameKept(threadIndex, frame) ==
    LET now == At(threads, threadIndex)
        before == At(run.start, threadIndex)
    IN  /\ At(now.frameTable.func, frame) = At(before.frameTable.func, frame)
        /\ At(now.frameTable.nativeSymbol, frame)
               = At(before.frameTable.nativeSymbol, frame)
        /\ FuncName(now, frame) = FuncName(before, frame)

\* C8 (not-found handling): when the provider reports a
\* SymbolsNotFoundError for a library, no step callback is invoked for that
\* library on any thread, the failure callback throws nothing, the step
\* callbacks of every library reported as success are still invoked, the
\* task does not fail unless an error of another kind was thrown, and the
\* frames of the failed library keep the func, native symbol and name they
\* had before the run.
NotFoundHandling ==
    /\ \A r \in Requests :
           NotFound(r) =>
               /\ \A i \in 1..Len(run.calls) : run.calls[i].libKey # RequestKey(r)
               /\ run.outcomes[r].thrown = <<>>
               /\ \A t \in ThreadIndexes :
                      HasEntry(t, RequestKey(r)) =>
                          \A f \in SetElems(EntryOf(t, RequestKey(r)).allFramesForThisLib) :
                              FrameKept(t, f)
    /\ \A r \in Requests :
           Succeeded(r) =>
               \A t \in ThreadIndexes :
                   HasEntry(t, RequestKey(r)) => CallsFor(t, RequestKey(r)) # {}
    /\ run.pc = "failed" =>
           /\ run.error # <<>>
           /\ ~InstanceOfSymbolsNotFoundError(run.error[1])

\* A run completes in which a library that an earlier run symbolicated is
\* reported as not found while another library is symbolicated.
NotFoundHandlingWitness ==
    /\ run.pc = "done"
    /\ threads # run.start
    /\ \E r \in Requests :
           /\ NotFound(r)
           /\ \E t \in ThreadIndexes :
                  /\ HasEntry(t, RequestKey(r))
                  /\ \E f \in SetElems(EntryOf(t, RequestKey(r)).allFramesForThisLib) :
                         At(At(run.start, t).frameTable.nativeSymbol, f) # Null
    /\ \E r \in Requests : Succeeded(r) /\ run.outcomes[r].results # <<>>

\* C9: an error passed to the failure callback that is not a
\* SymbolsNotFoundError is rethrown by the callback unchanged, it is not
\* logged and ignored, the run fails with it, and the run calls the
\* provider once only.
OtherErrorsRethrown ==
    /\ \A r \in Requests :
           (Failed(r) /\ ~NotFound(r)) =>
               /\ run.outcomes[r].thrown = run.outcomes[r].error
               /\ run.outcomes[r].warned = <<>>
               /\ run.pc = "failed"
               /\ run.error # <<>>
               /\ \E q \in Requests : Failed(q) /\ run.error = run.outcomes[q].error
    /\ run.providerCalls <= 1
    /\ run.pc = "awaiting" => run.providerCalls = 1

\* Every library was attempted, one of them with an error of another kind,
\* after a step callback had already run.
OtherErrorsRethrownWitness ==
    /\ AllAttempted
    /\ run.pc = "failed"
    /\ run.providerCalls = 1
    /\ run.calls # <<>>
    /\ \E r \in Requests :
           /\ Failed(r)
           /\ ~NotFound(r)
           /\ run.outcomes[r].thrown = run.outcomes[r].error

\* The step callback invocations of a library visit the threads in
\* ascending order, and every invocation is for a requested library.
CallsInThreadOrder ==
    /\ \A i, j \in 1..Len(run.calls) :
           (i < j /\ run.calls[i].libKey = run.calls[j].libKey)
               => run.calls[i].threadIndex < run.calls[j].threadIndex
    /\ \A i \in 1..Len(run.calls) :
           \E r \in Requests : run.calls[i].libKey = RequestKey(r)

\* C10 as stated: in a completed run the step callback was invoked exactly
\* once for every (thread, library) pair whose thread has an entry for the
\* library key, with that thread's info, never for a thread without an
\* entry, and in ascending thread order for one library.
StepCallbackOncePerPair ==
    run.pc = "done" =>
        /\ \A r \in Requests :
               \A t \in ThreadIndexes :
                   IF HasEntry(t, RequestKey(r))
                   THEN \E i \in 1..Len(run.calls) :
                            /\ CallsFor(t, RequestKey(r)) = {i}
                            /\ run.calls[i].symbolicationStep.threadLibSymbolicationInfo
                                   = EntryOf(t, RequestKey(r))
                   ELSE CallsFor(t, RequestKey(r)) = {}
        /\ CallsInThreadOrder

\* C10, amended: the step callback is invoked exactly once for every
\* (thread, library) pair whose thread has an entry for the library key and
\* whose library the provider reported as success, with that thread's info
\* and that library's results; it is not invoked for a library the provider
\* reported an error for, nor for a thread without an entry; for one
\* library the threads are visited in ascending thread index.
StepCallbackOncePerResolvedPair ==
    /\ \A r \in Requests :
           \A t \in ThreadIndexes :
               IF Succeeded(r) /\ HasEntry(t, RequestKey(r))
               THEN \E i \in 1..Len(run.calls) :
                        /\ CallsFor(t, RequestKey(r)) = {i}
                        /\ run.calls[i].symbolicationStep
                               = [threadLibSymbolicationInfo |->
                                      EntryOf(t, RequestKey(r)),
                                  resultsForLib |-> run.outcomes[r].results]
               ELSE CallsFor(t, RequestKey(r)) = {}
    /\ CallsInThreadOrder

\* A completed run with a library resolved for two threads, a library
\* resolved for the one thread that has it, and so three invocations.
StepCallbackOncePerResolvedPairWitness ==
    /\ run.pc = "done"
    /\ Len(run.calls) = 3
    /\ \E r \in Requests :
           /\ Succeeded(r)
           /\ \E t, u \in ThreadIndexes :
                  /\ t < u
                  /\ CallsFor(t, RequestKey(r)) # {}
                  /\ CallsFor(u, RequestKey(r)) # {}
    /\ \E r \in Requests :
           /\ Succeeded(r)
           /\ \E t \in ThreadIndexes : ~HasEntry(t, RequestKey(r))

----------------------------------------------------------------------------
(* Properties of the aggregator and the collector.                         *)

\* The library keys of the run's collector outputs.
CollectedKeys ==
    UNION {MapKeys(At(symbolicationInfo, t)) : t \in ThreadIndexes}

\* The addresses the threads recorded for a key.
AddressesFor(libKey) ==
    UNION {SetElems(EntryOf(t, libKey).frameAddresses) :
              t \in {u \in ThreadIndexes : HasEntry(u, libKey)}}

\* C11 (request aggregation): the aggregator returns exactly one request
\* per distinct library key of the collector outputs, and the request's
\* addresses are the union over the threads of the frameAddresses recorded
\* for the key, each of them once.
RequestAggregation ==
    run.providerCalls = 1 =>
        /\ Len(run.requests) = Cardinality(CollectedKeys)
        /\ \A libKey \in CollectedKeys :
               \E r \in Requests :
                   /\ RequestKey(r) = libKey
                   /\ SetElems(run.requests[r].addresses) = AddressesFor(libKey)
                   /\ Len(run.requests[r].addresses)
                          = Cardinality(AddressesFor(libKey))

\* Two threads record an address both have and addresses only one has for
\* a library, and one thread alone records another library.
RequestAggregationWitness ==
    /\ run.providerCalls = 1
    /\ Len(run.requests) = 2
    /\ \E libKey \in CollectedKeys :
           \E t, u \in ThreadIndexes :
               /\ t # u
               /\ HasEntry(t, libKey)
               /\ HasEntry(u, libKey)
               /\ SetElems(EntryOf(t, libKey).frameAddresses)
                      \cap SetElems(EntryOf(u, libKey).frameAddresses) # {}
               /\ SetElems(EntryOf(t, libKey).frameAddresses)
                      # SetElems(EntryOf(u, libKey).frameAddresses)
    /\ \E libKey \in CollectedKeys :
           Cardinality({t \in ThreadIndexes : HasEntry(t, libKey)}) = 1

----------------------------------------------------------------------------
(* Properties of the tables of a thread across steps.                      *)

\* Every frame's func and native symbol is a row of its table.
FramesPointAtRows(thread) ==
    \A frame \in 0..(thread.frameTable.length - 1) :
        /\ At(thread.frameTable.func, frame) \in 0..(thread.funcTable.length - 1)
        /\ \/ At(thread.frameTable.nativeSymbol, frame) = Null
           \/ At(thread.frameTable.nativeSymbol, frame)
                  \in 0..(thread.nativeSymbols.length - 1)

\* C12 (referential integrity): in the thread returned by any sequence of
\* steps, each applied to the output of the one before, every frame's func
\* is below funcTable.length and every non-null frame nativeSymbol is below
\* nativeSymbols.length.
ReferentialIntegrity ==
    /\ \A t \in ThreadIndexes : FramesPointAtRows(At(threads, t))
    /\ Applied(last) => FramesPointAtRows(last.thread)

\* The second of two steps has appended a func and a native symbol, and
\* frames of the library point at the last row of each table.
ReferentialIntegrityWitness ==
    /\ Applied(prev)
    /\ Applied(last)
    /\ last.thread.funcTable.length > last.before.funcTable.length
    /\ last.thread.nativeSymbols.length > last.before.nativeSymbols.length
    /\ \E frame \in LibFramesOf(last) :
           NewFunc(last, frame) = last.thread.funcTable.length - 1
    /\ \E frame \in LibFramesOf(last) :
           NewSymbol(last, frame) = last.thread.nativeSymbols.length - 1

\* The row of a native symbol carries an address and a name.
SymbolRowIsFilled(thread, symbol) ==
    /\ symbol \in 0..(thread.nativeSymbols.length - 1)
    /\ symbol + 1 \in DOMAIN thread.nativeSymbols.address
    /\ At(thread.nativeSymbols.address, symbol) \in Nat
    /\ symbol + 1 \in DOMAIN thread.nativeSymbols.name
    /\ At(thread.nativeSymbols.name, symbol)
           \in 0..(Len(thread.stringTable) - 1)

\* C13 (no holes): whatever resultsForLib holds, the step throws neither
\* of its two defensive errors, and afterwards every frame of
\* allFramesForThisLib has a native symbol whose row carries an address and
\* a name.
NoHoles ==
    last.valid =>
        /\ last.error = ""
        /\ \A frame \in LibFramesOf(last) :
               /\ NewSymbol(last, frame) # Null
               /\ SymbolRowIsFilled(last.thread, NewSymbol(last, frame))

\* A step with an empty resultsForLib on frames that had no native symbol.
NoHolesWitness ==
    /\ Applied(last)
    /\ DOMAIN last.resultsForLib = {}
    /\ Cardinality(LibFramesOf(last)) > 1
    /\ \A frame \in LibFramesOf(last) :
           /\ At(last.before.frameTable.nativeSymbol, frame) = Null
           /\ NewSymbol(last, frame) # Null

----------------------------------------------------------------------------
(* Properties of symbolicateProfile on malformed input.                    *)

\* The thread has a library resource with a lib index that is none of
\* null, undefined and -1 and that has no row in libs.
HasResourceWithoutLib(thread) ==
    \E resourceIndex \in 0..(thread.resourceTable.length - 1) :
        /\ At(thread.resourceTable.type, resourceIndex) = "library"
        /\ At(thread.resourceTable.lib, resourceIndex) # Null
        /\ At(thread.resourceTable.lib, resourceIndex)
               \notin 0..(Len(thread.libs) - 1)

\* C14 (malformed input is fatal): when a thread of the profile has a
\* library resource whose lib index has no lib row, symbolicateProfile
\* fails with 'Did not find a lib.' before the provider is invoked: no
\* request is sent, no step callback runs and the profile is unchanged.
MalformedInputIsFatal ==
    (/\ run.number > 0
     /\ \E t \in 1..Len(run.start) : HasResourceWithoutLib(run.start[t])) =>
        /\ run.pc = "failed"
        /\ run.error = <<[class |-> "Error", message |-> "Did not find a lib."]>>
        /\ run.providerCalls = 0
        /\ run.requests = <<>>
        /\ run.calls = <<>>
        /\ threads = run.start

\* A run on a profile whose second thread has such a resource, while its
\* first thread has a library with frames to symbolicate.
MalformedInputIsFatalWitness ==
    /\ run.number > 0
    /\ run.pc = "failed"
    /\ ~HasResourceWithoutLib(run.start[1])
    /\ GetThreadSymbolicationInfo(run.start[1]).map # <<>>
    /\ HasResourceWithoutLib(run.start[2])

----------------------------------------------------------------------------
(* Properties of the growth of the tables.                                 *)

\* The funcs and the native symbols the library's frames use after a step.
FuncsUsed(step) == {NewFunc(step, frame) : frame \in LibFramesOf(step)}

SymbolsUsed(step) == {NewSymbol(step, frame) : frame \in LibFramesOf(step)}

\* The number of distinct funcs and native symbols the step needs.
FuncsNeeded(step) ==
    Cardinality({ResolvedPairOf(step, frame) : frame \in LibFramesOf(step)})

SymbolsNeeded(step) ==
    Cardinality({SymbolAddressOf(step, frame) : frame \in LibFramesOf(step)})

\* The rows of a table from index from up to, not including, index to.
Rows(from, to) == from..(to - 1)

Max(a, b) == IF a > b THEN a ELSE b

\* C15 (tables only grow): a step never shortens funcTable or
\* nativeSymbols; when it needs more distinct funcs (native symbols) than
\* the library has rows available, the missing rows are appended from the
\* previous length on and the frames are still grouped by (name, file) and
\* by symbolAddress; on a thread whose nativeSymbols table is empty the
\* library's frames use exactly the native symbols 0..k-1 for k distinct
\* symbolAddresses.
TablesOnlyGrow ==
    Applied(last) =>
        LET funcsBefore == last.before.funcTable.length
            funcsAfter == last.thread.funcTable.length
            symbolsBefore == last.before.nativeSymbols.length
            symbolsAfter == last.thread.nativeSymbols.length
            funcsAvailable == Len(last.info.allFuncsForThisLib)
            symbolsAvailable == Len(last.info.allNativeSymbolsForThisLib)
        IN  /\ funcsAfter
                   = funcsBefore + Max(0, FuncsNeeded(last) - funcsAvailable)
            /\ symbolsAfter
                   = symbolsBefore + Max(0, SymbolsNeeded(last) - symbolsAvailable)
            /\ FuncsNeeded(last) > funcsAvailable =>
                   /\ FuncsUsed(last)
                          = SetElems(last.info.allFuncsForThisLib)
                                \cup Rows(funcsBefore, funcsAfter)
                   /\ \A f1, f2 \in LibFramesOf(last) :
                          (NewFunc(last, f1) = NewFunc(last, f2))
                              <=> (ResolvedPairOf(last, f1)
                                       = ResolvedPairOf(last, f2))
            /\ SymbolsNeeded(last) > symbolsAvailable =>
                   /\ SymbolsUsed(last)
                          = SetElems(last.info.allNativeSymbolsForThisLib)
                                \cup Rows(symbolsBefore, symbolsAfter)
                   /\ \A f1, f2 \in LibFramesOf(last) :
                          (NewSymbol(last, f1) = NewSymbol(last, f2))
                              <=> (SymbolAddressOf(last, f1)
                                       = SymbolAddressOf(last, f2))
            /\ symbolsBefore = 0 =>
                   SymbolsUsed(last) = Rows(0, SymbolsNeeded(last))

\* A step that had one func and one native symbol of the library available
\* and needed two of each, after a step that appended nothing.
TablesOnlyGrowWitness ==
    /\ Applied(prev)
    /\ prev.thread.funcTable.length = prev.before.funcTable.length
    /\ prev.thread.nativeSymbols.length = prev.before.nativeSymbols.length
    /\ Applied(last)
    /\ Len(last.info.allFuncsForThisLib) = 1
    /\ Len(last.info.allNativeSymbolsForThisLib) = 1
    /\ FuncsNeeded(last) = 2
    /\ SymbolsNeeded(last) = 2
    /\ last.thread.funcTable.length = last.before.funcTable.length + 1
    /\ last.thread.nativeSymbols.length = last.before.nativeSymbols.length + 1

----------------------------------------------------------------------------
(* Properties of makeConsensusMap.                                         *)

\* The pairs with the key, as positions of the sequence.
PairsWithKey(key) ==
    {i \in 1..Len(consensusCall.pairs) : consensusCall.pairs[i][1] = key}

\* The returned map contains the key with the value.
ConsensusHas(key, value) ==
    /\ MapHas(consensusCall.map, key)
    /\ MapGet(consensusCall.map, key) = value

\* At least one pair has the key and every pair with the key has the value.
AllPairsAgreeOn(key, value) ==
    /\ PairsWithKey(key) # {}
    /\ \A i \in PairsWithKey(key) : consensusCall.pairs[i][2] = value

ConsensusMapOfDefinedPairs ==
    (\A i \in 1..Len(consensusCall.pairs) : consensusCall.pairs[i][2] # Null) =>
        \A key \in ConsensusKeys, value \in ConsensusValues :
            ConsensusHas(key, value) <=> AllPairsAgreeOn(key, value)

\* Two pairs disagree on a key and a third repeats the first value, while
\* the map of the first two pairs of another sequence keeps its key.
ConsensusMapOfDefinedPairsWitness ==
    /\ Len(consensusCall.pairs) = 3
    /\ \A i \in 1..3 : consensusCall.pairs[i][1] = 1
    /\ consensusCall.pairs[1][2] = 3
    /\ consensusCall.pairs[2][2] = 4
    /\ consensusCall.pairs[3][2] = 3
    /\ ~MapHas(consensusCall.map, 1)

----------------------------------------------------------------------------
(* Properties of getThreadSymbolicationInfo.                               *)

\* The resource is of type library and its lib index has a row in libs.
IsResolvableLibrary(thread, resourceIndex) ==
    /\ At(thread.resourceTable.type, resourceIndex) = "library"
    /\ At(thread.resourceTable.lib, resourceIndex) \in 0..(Len(thread.libs) - 1)

ResolvableLibraries(thread) ==
    {resourceIndex \in 0..(thread.resourceTable.length - 1) :
        IsResolvableLibrary(thread, resourceIndex)}

KeyOfResource(thread, resourceIndex) ==
    LibKey(At(thread.libs, At(thread.resourceTable.lib, resourceIndex)))

\* The sequence holds exactly the elements of the set, in ascending order.
IsAscendingListOf(seq, set) ==
    /\ SetElems(seq) = set
    /\ \A i, j \in 1..Len(seq) : i < j => seq[i] < seq[j]

\* The entry is what the claim says the collector records for the resource.
IsRecordOf(entry, thread, resourceIndex) ==
    LET libIndex == At(thread.resourceTable.lib, resourceIndex)
    IN  /\ entry.resourceIndex = resourceIndex
        /\ entry.libIndex = libIndex
        /\ IsAscendingListOf(
               entry.allFuncsForThisLib,
               {func \in 0..(thread.funcTable.length - 1) :
                   At(thread.funcTable.resource, func) = resourceIndex})
        /\ IsAscendingListOf(
               entry.allNativeSymbolsForThisLib,
               {symbol \in 0..(thread.nativeSymbols.length - 1) :
                   At(thread.nativeSymbols.libIndex, symbol) = libIndex})
        /\ IsAscendingListOf(
               entry.allFramesForThisLib,
               {frame \in 0..(thread.frameTable.length - 1) :
                   At(thread.funcTable.resource,
                      At(thread.frameTable.func, frame)) = resourceIndex})
        /\ Len(entry.frameAddresses) = Len(entry.allFramesForThisLib)
        /\ \A i \in 1..Len(entry.frameAddresses) :
               entry.frameAddresses[i]
                   = At(thread.frameTable.address, entry.allFramesForThisLib[i])

\* The frames of resources that are not resolvable libraries.
FramesOutsideLibraries(thread) ==
    {frame \in 0..(thread.frameTable.length - 1) :
        ~IsResolvableLibrary(thread,
                             At(thread.funcTable.resource,
                                At(thread.frameTable.func, frame)))}

\* What the claim says of the collector's map for thread t of the run.
CollectedExactly(t) ==
    LET thread == run.start[t + 1]
        map == At(symbolicationInfo, t)
    IN  /\ \A resourceIndex \in ResolvableLibraries(thread) :
               /\ MapHas(map, KeyOfResource(thread, resourceIndex))
               /\ IsRecordOf(MapGet(map, KeyOfResource(thread, resourceIndex)),
                             thread, resourceIndex)
        /\ \A libKey \in MapKeys(map) :
               \E resourceIndex \in ResolvableLibraries(thread) :
                   KeyOfResource(thread, resourceIndex) = libKey
        /\ \A frame \in FramesOutsideLibraries(thread) :
               /\ \A libKey \in MapKeys(map) :
                      ~SetHas(MapGet(map, libKey).allFramesForThisLib, frame)
               /\ At(At(threads, t).frameTable.func, frame)
                      = At(thread.frameTable.func, frame)
               /\ At(At(threads, t).frameTable.nativeSymbol, frame)
                      = At(thread.frameTable.nativeSymbol, frame)
               /\ At(At(threads, t).frameTable.line, frame)
                      = At(thread.frameTable.line, frame)

\* C17 (address collector): for each library resource with a resolvable
\* lib index the collector records under the lib's key exactly the funcs of
\* the resource, the native symbols of the lib index and the frames of the
\* resource in ascending order with their addresses; other resources
\* produce no entry and their frames are changed by no step.
AddressCollector ==
    run.providerCalls = 1 => \A t \in ThreadIndexes : CollectedExactly(t)

\* No two library resources of the thread have the same library key.
HasDistinctKeys(thread) ==
    \A r1, r2 \in ResolvableLibraries(thread) :
        KeyOfResource(thread, r1) = KeyOfResource(thread, r2) => r1 = r2

\* The same for the threads whose library resources have distinct keys.
AddressCollectorOfDistinctKeys ==
    run.providerCalls = 1 =>
        \A t \in ThreadIndexes :
            HasDistinctKeys(run.start[t + 1]) => CollectedExactly(t)

\* Two library resources of a thread have the same library key, and the
\* map's entry for the key is not the record of the first of them.
SameKeyOverwritten ==
    /\ run.providerCalls = 1
    /\ \E t \in ThreadIndexes :
           \E r1, r2 \in ResolvableLibraries(run.start[t + 1]) :
               /\ r1 < r2
               /\ KeyOfResource(run.start[t + 1], r1)
                      = KeyOfResource(run.start[t + 1], r2)
               /\ ~IsRecordOf(EntryOf(t, KeyOfResource(run.start[t + 1], r1)),
                              run.start[t + 1], r1)
               /\ IsRecordOf(EntryOf(t, KeyOfResource(run.start[t + 1], r2)),
                             run.start[t + 1], r2)

----------------------------------------------------------------------------
(* Properties of the choice of canonical native symbols.                   *)

OldSymbol(step, frame) == At(step.before.frameTable.nativeSymbol, frame)

\* The native symbols that belonged to the library before the step.
SymbolsOfLib(step) == SetElems(step.info.allNativeSymbolsForThisLib)

\* The frame's own native symbol belongs to the library and, when the frame
\* is visited, neither has the frame's symbolAddress a canonical symbol nor
\* is the frame's symbol the canonical symbol of another symbolAddress.
RECURSIVE ClaimsOwnSymbol(_, _)
ClaimsOwnSymbol(step, frame) ==
    /\ OldSymbol(step, frame) \in SymbolsOfLib(step)
    /\ \A earlier \in LibFramesOf(step) :
           (earlier < frame /\ ClaimsOwnSymbol(step, earlier)) =>
               /\ SymbolAddressOf(step, earlier) # SymbolAddressOf(step, frame)
               /\ OldSymbol(step, earlier) # OldSymbol(step, frame)

\* The native symbols claimed by the frames that own them.
ClaimedSymbols(step) ==
    {OldSymbol(step, frame) :
        frame \in {f \in LibFramesOf(step) : ClaimsOwnSymbol(step, f)}}

\* No frame claims its own symbol for the symbolAddress.
IsUnclaimedAddress(step, symbolAddress) ==
    \A frame \in LibFramesOf(step) :
        SymbolAddressOf(step, frame) = symbolAddress
            => ~ClaimsOwnSymbol(step, frame)

\* C18 (canonical native-symbol choice): the canonical row of a
\* symbolAddress is a frame's own native symbol when that row belongs to
\* the library and is unclaimed when the frame is visited, otherwise another
\* unclaimed native symbol of the library, and a new row only when none
\* remains; after the step the row's address is the symbolAddress and its
\* libIndex the library's.
CanonicalSymbolChoice ==
    Applied(last) =>
        \A frame \in LibFramesOf(last) :
            LET symbolAddress == SymbolAddressOf(last, frame)
                row == NewSymbol(last, frame)
                appended == Rows(last.before.nativeSymbols.length,
                                 last.thread.nativeSymbols.length)
            IN  /\ ClaimsOwnSymbol(last, frame) => row = OldSymbol(last, frame)
                /\ IsUnclaimedAddress(last, symbolAddress) =>
                       row \in (SymbolsOfLib(last) \ ClaimedSymbols(last))
                                   \cup appended
                /\ row \in appended => SymbolsOfLib(last) \subseteq SymbolsUsed(last)
                /\ At(last.thread.nativeSymbols.address, row) = symbolAddress
                /\ At(last.thread.nativeSymbols.libIndex, row) = last.info.libIndex

\* Two frames had the same native symbol and resolve to two symbolAddresses:
\* the first keeps the symbol and the second takes a symbol of the library
\* that no frame used.
CanonicalSymbolChoiceWitness ==
    /\ Applied(last)
    /\ last.thread.nativeSymbols.length = last.before.nativeSymbols.length
    /\ \E f1, f2 \in LibFramesOf(last) :
           /\ f1 < f2
           /\ OldSymbol(last, f1) # Null
           /\ OldSymbol(last, f1) = OldSymbol(last, f2)
           /\ SymbolAddressOf(last, f1) # SymbolAddressOf(last, f2)
           /\ ClaimsOwnSymbol(last, f1)
           /\ NewSymbol(last, f1) = OldSymbol(last, f1)
           /\ ~ClaimsOwnSymbol(last, f2)
           /\ NewSymbol(last, f2) \in SymbolsOfLib(last)
           /\ NewSymbol(last, f2) # OldSymbol(last, f2)

----------------------------------------------------------------------------
(* Properties of the fallback for addresses without a result, and of the   *)
(* line column.                                                            *)

FrameAddress(step, frame) == At(step.before.frameTable.address, frame)

HasResult(step, frame) == FrameAddress(step, frame) \in DOMAIN step.resultsForLib

\* The name the frame resolves to: the one resultsForLib gives for the
\* frame's address, else the name of the frame's existing native symbol,
\* else 0x and the frame's address in lowercase hexadecimal.
SymbolNameOf(step, frame) ==
    IF HasResult(step, frame)
    THEN step.resultsForLib[FrameAddress(step, frame)].name
    ELSE IF OldSymbol(step, frame) # Null
    THEN At(step.before.stringTable,
            At(step.before.nativeSymbols.name, OldSymbol(step, frame)))
    ELSE "0x" \o ToString16(FrameAddress(step, frame))

\* The name of the frame's native symbol after the step.
NewSymbolName(step, frame) ==
    At(step.thread.stringTable,
       At(step.thread.nativeSymbols.name, NewSymbol(step, frame)))

\* No later frame of the library resolves to the frame's symbolAddress.
IsLastOfSymbolAddress(step, frame) ==
    \A later \in LibFramesOf(step) :
        SymbolAddressOf(step, later) = SymbolAddressOf(step, frame)
            => later <= frame

\* C19 (Step A fallback): a frame whose address has no result resolves to
\* the address and name of its existing native symbol when it has one, and
\* otherwise to its own address and the name 0x followed by the address in
\* lowercase hexadecimal; a frame whose address has a result resolves to the
\* provider's symbolAddress and name.  The step writes what the frame
\* resolves to into the frame's native symbol, the name as the last frame
\* of the symbolAddress resolves it.
StepAFallback ==
    Applied(last) =>
        \A frame \in LibFramesOf(last) :
            /\ At(last.thread.nativeSymbols.address, NewSymbol(last, frame))
                   = SymbolAddressOf(last, frame)
            /\ IsLastOfSymbolAddress(last, frame) =>
                   NewSymbolName(last, frame) = SymbolNameOf(last, frame)

\* A step named a frame without native symbol and without result 0xa, and
\* the next step has a frame with a result and a frame without one that
\* falls back to the address and name of its native symbol.
StepAFallbackWitness ==
    /\ Applied(prev)
    /\ \E frame \in LibFramesOf(prev) :
           /\ ~HasResult(prev, frame)
           /\ OldSymbol(prev, frame) = Null
           /\ FrameAddress(prev, frame) = 10
           /\ NewSymbolName(prev, frame) = "0xa"
    /\ Applied(last)
    /\ \E f1, f2 \in LibFramesOf(last) :
           /\ HasResult(last, f1)
           /\ NewSymbolName(last, f1)
                  = last.resultsForLib[FrameAddress(last, f1)].name
           /\ ~HasResult(last, f2)
           /\ OldSymbol(last, f2) # Null
           /\ NewSymbolName(last, f2) = "0xa"
           /\ SymbolAddressOf(last, f2)
                  = At(last.before.nativeSymbols.address, OldSymbol(last, f2))

OldLine(step, frame) == At(step.before.frameTable.line, frame)

NewLine(step, frame) == At(step.thread.frameTable.line, frame)

\* C20 (line column): after a step a frame of the library whose address
\* has a result has the result's line, or null when the result has no
\* line, and a frame of the library whose address has no result keeps the
\* line it had.
LineColumn ==
    Applied(last) =>
        \A frame \in LibFramesOf(last) :
            NewLine(last, frame)
                = IF HasResult(last, frame)
                  THEN last.resultsForLib[FrameAddress(last, frame)].line
                  ELSE OldLine(last, frame)

\* Two frames had a line; the one without a result keeps it and the one
\* with a result that has no line loses it.
LineColumnWitness ==
    /\ Applied(last)
    /\ \E f1, f2 \in LibFramesOf(last) :
           /\ ~HasResult(last, f1)
           /\ OldLine(last, f1) # Null
           /\ NewLine(last, f1) = OldLine(last, f1)
           /\ HasResult(last, f2)
           /\ OldLine(last, f2) # Null
           /\ last.resultsForLib[FrameAddress(last, f2)].line = Null
           /\ NewLine(last, f2) = Null


----------------------------------------------------------------------------
(* Properties of what a step leaves alone.                                 *)

\* The func rows and native-symbol rows the thread had before the step.
FuncRowsBefore(step) == Rows(0, step.before.funcTable.length)

SymbolRowsBefore(step) == Rows(0, step.before.nativeSymbols.length)

\* The row of a func or of a native symbol, as the record of its columns.
FuncRow(thread, func) ==
    [name |-> At(thread.funcTable.name, func),
     fileName |-> At(thread.funcTable.fileName, func),
     resource |-> At(thread.funcTable.resource, func),
     isJS |-> At(thread.funcTable.isJS, func),
     relevantForJS |-> At(thread.funcTable.relevantForJS, func),
     lineNumber |-> At(thread.funcTable.lineNumber, func),
     columnNumber |-> At(thread.funcTable.columnNumber, func)]

SymbolRow(thread, symbol) ==
    [address |-> At(thread.nativeSymbols.address, symbol),
     name |-> At(thread.nativeSymbols.name, symbol),
     libIndex |-> At(thread.nativeSymbols.libIndex, symbol)]

\* C21 (frame of a step): in the returned thread a step leaves unchanged
\* the func, nativeSymbol and line of every frame outside
\* allFramesForThisLib, the address of every frame, every func row outside
\* allFuncsForThisLib, every native-symbol row that existed and is outside
\* allNativeSymbolsForThisLib, and libs and resourceTable; every index of
\* the string table keeps its string.
FrameOfStep ==
    Applied(last) =>
        /\ last.thread.frameTable.length = last.before.frameTable.length
        /\ \A frame \in AllFramesOf(last) \ LibFramesOf(last) :
               /\ NewFunc(last, frame) = OldFunc(last, frame)
               /\ NewSymbol(last, frame) = OldSymbol(last, frame)
               /\ NewLine(last, frame) = OldLine(last, frame)
        /\ last.thread.frameTable.address = last.before.frameTable.address
        /\ \A func \in FuncRowsBefore(last)
                           \ SetElems(last.info.allFuncsForThisLib) :
               FuncRow(last.thread, func) = FuncRow(last.before, func)
        /\ \A symbol \in SymbolRowsBefore(last) \ SymbolsOfLib(last) :
               SymbolRow(last.thread, symbol) = SymbolRow(last.before, symbol)
        /\ last.thread.libs = last.before.libs
        /\ last.thread.resourceTable = last.before.resourceTable
        /\ \A i \in 1..Len(last.before.stringTable) :
               last.thread.stringTable[i] = last.before.stringTable[i]

\* After a step of another library gave its frames native symbols and
\* lines, a step appends a func, a native symbol and a string and changes
\* the func of a frame of its library.
FrameOfStepWitness ==
    /\ Applied(prev)
    /\ Applied(last)
    /\ prev.libKey # last.libKey
    /\ \E frame \in AllFramesOf(last) \ LibFramesOf(last) :
           /\ OldSymbol(last, frame) # Null
           /\ OldLine(last, frame) # Null
    /\ SymbolRowsBefore(last) \ SymbolsOfLib(last) # {}
    /\ last.thread.funcTable.length > last.before.funcTable.length
    /\ last.thread.nativeSymbols.length > last.before.nativeSymbols.length
    /\ Len(last.thread.stringTable) > Len(last.before.stringTable)
    /\ \E frame \in LibFramesOf(last) :
           NewFunc(last, frame) # OldFunc(last, frame)


----------------------------------------------------------------------------
(* Properties of the keys a step writes into oldFuncToNewFuncMap.          *)

\* The keys whose entry the step added, overwrote with another value or
\* removed.
KeysChanged(step) ==
    {k \in MapKeys(step.mapBefore) \cup MapKeys(step.mapAfter) :
        \/ MapHas(step.mapBefore, k) # MapHas(step.mapAfter, k)
        \/ /\ MapHas(step.mapBefore, k)
           /\ MapGet(step.mapBefore, k) # MapGet(step.mapAfter, k)}

\* The old funcs of the library's frames: the keys of the step's pairs.
KeysOfPairs(step) == {OldFunc(step, frame) : frame \in LibFramesOf(step)}

\* C22 (map keys stay within the library): a step with info collected from
\* the thread it is applied to adds or overwrites in oldFuncToNewFuncMap
\* only keys of allFuncsForThisLib and leaves every other entry unchanged,
\* and the keys of two steps of different libraries of one thread do not
\* overlap.
MapKeysWithinLibrary ==
    Applied(last) =>
        /\ KeysChanged(last) \subseteq SetElems(last.info.allFuncsForThisLib)
        /\ KeysOfPairs(last) \subseteq SetElems(last.info.allFuncsForThisLib)
        /\ (/\ Applied(prev)
            /\ prev.threadIndex = last.threadIndex
            /\ prev.libKey # last.libKey) =>
               /\ SetElems(prev.info.allFuncsForThisLib)
                      \cap SetElems(last.info.allFuncsForThisLib) = {}
               /\ KeysOfPairs(prev) \cap KeysOfPairs(last) = {}

\* A step is handed the map an earlier step of another library of the
\* thread filled, and adds a key.
MapKeysWithinLibraryWitness ==
    /\ Applied(prev)
    /\ Applied(last)
    /\ prev.threadIndex = last.threadIndex
    /\ prev.libKey # last.libKey
    /\ last.mapBefore = prev.mapAfter
    /\ last.mapBefore # <<>>
    /\ KeysChanged(last) # {}
    /\ MapKeys(last.mapBefore) \subseteq MapKeys(last.mapAfter)


----------------------------------------------------------------------------
(* Properties of the native symbols and funcs of the library's frames.     *)

\* C23 (distinct symbols stay distinct): after a step two frames of the
\* library whose symbolAddresses differ have different native symbols, so
\* that no native-symbol row is the canonical row of two symbolAddresses.
DistinctSymbolsStayDistinct ==
    Applied(last) =>
        \A f1, f2 \in LibFramesOf(last) :
            SymbolAddressOf(last, f1) # SymbolAddressOf(last, f2)
                => NewSymbol(last, f1) # NewSymbol(last, f2)

\* Two frames that had one native symbol, the only one of the library,
\* resolve to two symbolAddresses and end with two native symbols.
DistinctSymbolsStayDistinctWitness ==
    /\ Applied(last)
    /\ Cardinality(SymbolsOfLib(last)) = 1
    /\ \E f1, f2 \in LibFramesOf(last) :
           /\ OldSymbol(last, f1) # Null
           /\ OldSymbol(last, f1) = OldSymbol(last, f2)
           /\ SymbolAddressOf(last, f1) # SymbolAddressOf(last, f2)
           /\ NewSymbol(last, f1) # NewSymbol(last, f2)


\* The file name of a func, Undefined when the func has none.
FuncFileName(thread, func) ==
    IF At(thread.funcTable.fileName, func) = Null THEN Undefined
    ELSE At(thread.stringTable, At(thread.funcTable.fileName, func))

\* C24 (previous file name is kept): after a step the func of a frame of
\* the library whose address has no result has the fileName that the
\* frame's func had in the input thread, also when an earlier frame of the
\* step has reused that func row for another function.
PreviousFileNameKept ==
    Applied(last) =>
        \A frame \in LibFramesOf(last) :
            ~HasResult(last, frame) =>
                FuncFileName(last.thread, NewFunc(last, frame))
                    = FuncFileName(last.before, OldFunc(last, frame))

\* The func row of the frame is given to an earlier frame of the step.
OldFuncIsReused(step, frame) ==
    \E earlier \in LibFramesOf(step) :
        /\ earlier < frame
        /\ NewFunc(step, earlier) = OldFunc(step, frame)
        /\ FuncRow(step.thread, OldFunc(step, frame))
               # FuncRow(step.before, OldFunc(step, frame))

\* The same for the frames whose func row no earlier frame of the step
\* has been given with other contents.
PreviousFileNameKeptUnlessReused ==
    Applied(last) =>
        \A frame \in LibFramesOf(last) :
            (~HasResult(last, frame) /\ ~OldFuncIsReused(last, frame)) =>
                FuncFileName(last.thread, NewFunc(last, frame))
                    = FuncFileName(last.before, OldFunc(last, frame))

\* Two frames share a func with a file name; the first gets a result
\* without file and is given the func row, and the second, without result,
\* ends in a func without file name.
FileNameLostAfterReuse ==
    /\ Applied(last)
    /\ \E f1, f2 \in LibFramesOf(last) :
           /\ f1 < f2
           /\ OldFunc(last, f1) = OldFunc(last, f2)
           /\ FuncFileName(last.before, OldFunc(last, f2)) # Undefined
           /\ HasResult(last, f1)
           /\ last.resultsForLib[FrameAddress(last, f1)].file = Undefined
           /\ NewFunc(last, f1) = OldFunc(last, f2)
           /\ ~HasResult(last, f2)
           /\ FuncFileName(last.thread, NewFunc(last, f2)) = Undefined


\* C25 (func name agrees with native-symbol name): after a step, for every
\* frame of the library and every resultsForLib, the name of the frame's
\* func is the name of the frame's native symbol.
FuncNameIsSymbolName ==
    Applied(last) =>
        \A frame \in LibFramesOf(last) :
            FuncName(last.thread, frame) = NewSymbolName(last, frame)

\* Every frame of the symbolAddress resolves to the name of the frame.
IsNamedAlike(step, frame) ==
    \A other \in LibFramesOf(step) :
        SymbolAddressOf(step, other) = SymbolAddressOf(step, frame)
            => SymbolNameOf(step, other) = SymbolNameOf(step, frame)

\* The same for the frames whose symbolAddress has one name in the step.
FuncNameIsSymbolNameIfNamedAlike ==
    Applied(last) =>
        \A frame \in LibFramesOf(last) :
            IsNamedAlike(last, frame) =>
                FuncName(last.thread, frame) = NewSymbolName(last, frame)

\* A frame has a result with a new name for the symbolAddress that a later
\* frame without result falls back to under its old name: the native
\* symbol of both keeps the old name and the func of the first has the new.
SymbolNamedByFallback ==
    /\ Applied(last)
    /\ \E f1, f2 \in LibFramesOf(last) :
           /\ f1 < f2
           /\ HasResult(last, f1)
           /\ ~HasResult(last, f2)
           /\ OldSymbol(last, f2) # Null
           /\ SymbolAddressOf(last, f1) = SymbolAddressOf(last, f2)
           /\ NewSymbol(last, f1) = NewSymbol(last, f2)
           /\ FuncName(last.thread, f1)
                  = last.resultsForLib[FrameAddress(last, f1)].name
           /\ NewSymbolName(last, f1) = SymbolNameOf(last, f2)
           /\ FuncName(last.thread, f1) # NewSymbolName(last, f1)


----------------------------------------------------------------------------
(* Coverage of the library frames by the collector and the requests.       *)

\* The frames whose func belongs to a resolvable library resource.
FramesOfLibraries(thread) ==
    {frame \in 0..(thread.frameTable.length - 1) :
        IsResolvableLibrary(thread,
                            At(thread.funcTable.resource,
                               At(thread.frameTable.func, frame)))}

\* The keys of the entries of thread t that list the frame.
KeysCovering(t, frame) ==
    {libKey \in MapKeys(At(symbolicationInfo, t)) :
        SetHas(EntryOf(t, libKey).allFramesForThisLib, frame)}

\* Exactly one entry lists the frame, and the request of the entry's key
\* asks for the frame's address.
IsCovered(t, frame) ==
    /\ Cardinality(KeysCovering(t, frame)) = 1
    /\ \A libKey \in KeysCovering(t, frame) :
           \E r \in Requests :
               /\ RequestKey(r) = libKey
               /\ SetHas(run.requests[r].addresses,
                         At(run.start[t + 1].frameTable.address, frame))

\* C26 (every library frame is covered): each frame whose func's resource
\* is a library resource with a lib index that has a lib row is listed in
\* allFramesForThisLib of exactly one entry of its thread's collector
\* output, and its address is in the request built for that entry's key,
\* also when two resources of the thread have libs with the same key.
EveryLibraryFrameCovered ==
    run.providerCalls = 1 =>
        \A t \in ThreadIndexes :
            \A frame \in FramesOfLibraries(run.start[t + 1]) :
                IsCovered(t, frame)

\* The same for the threads whose library resources have distinct keys.
EveryLibraryFrameCoveredOfDistinctKeys ==
    run.providerCalls = 1 =>
        \A t \in ThreadIndexes :
            HasDistinctKeys(run.start[t + 1]) =>
                \A frame \in FramesOfLibraries(run.start[t + 1]) :
                    IsCovered(t, frame)

\* A frame of a library resource is listed by no entry of its thread, and
\* no request carries its address, while a later resource's frames are listed
\* under the same key.
FrameLeftOut ==
    /\ run.providerCalls = 1
    /\ \E t \in ThreadIndexes :
           \E frame \in FramesOfLibraries(run.start[t + 1]) :
               LET thread == run.start[t + 1]
                   resourceIndex ==
                       At(thread.funcTable.resource,
                          At(thread.frameTable.func, frame))
               IN  /\ KeysCovering(t, frame) = {}
                   /\ HasEntry(t, KeyOfResource(thread, resourceIndex))
                   /\ EntryOf(t, KeyOfResource(thread, resourceIndex)).resourceIndex
                          > resourceIndex
                   /\ \A r \in Requests :
                          ~SetHas(run.requests[r].addresses,
                                  At(thread.frameTable.address, frame))


----------------------------------------------------------------------------
(* Symbolication runs over a profile whose libs have the character '/' in  *)
(* their debugName or breakpadId.                                          *)

LibSlashName == [debugName |-> <<"a", "/", "b">>, breakpadId |-> <<"A", "1">>]

LibSlashId == [debugName |-> <<"x", "u", "l">>, breakpadId |-> <<"A", "/", "1">>]

\* A thread with frames in LibA and in a lib with '/' in its debugName.
ThreadSlashName ==
    MakeThread(<<LibA, LibSlashName>>,
               <<<<"library", 0>>, <<"library", 1>>>>,
               <<<<"0x4", 0, FALSE>>, <<"0xa", 1, FALSE>>>>,
               <<<<4, 0>>, <<10, 1>>>>)

\* A thread with frames in a lib with '/' in its breakpadId.
ThreadSlashId ==
    MakeThread(<<LibSlashId>>,
               <<<<"library", 0>>>>,
               <<<<"0x6", 0, FALSE>>, <<"0x8", 0, FALSE>>>>,
               <<<<6, 0>>, <<8, 1>>>>)

SlashThreads == <<ThreadSlashName, ThreadSlashId>>

InitKey ==
    /\ threads = SlashThreads
    /\ symbolicationInfo = [i \in 1..Len(SlashThreads) |-> <<>>]
    /\ oldFuncToNewFuncMap = [i \in 1..Len(SlashThreads) |-> <<>>]
    /\ last = NoStep
    /\ prev = NoStep
    /\ nSteps = 0
    /\ run = NoRun
    /\ consensusCall = NoConsensus

SpecKey == InitKey /\ [][NextRun]_vars

\* The lib of the entry that thread t's collector output has for the key.
LibOfEntry(t, libKey) == At(run.start[t + 1].libs, EntryOf(t, libKey).libIndex)

\* The key's request carries the lib's debugName and breakpadId, the
\* success callback recomputes the key from it, and once the provider has
\* reported success for the request the thread has had its step callback.
RoundTrips(t, libKey) ==
    \E r \in Requests :
        /\ run.requests[r].lib = LibOfEntry(t, libKey)
        /\ SuccessCallbackLibKey(run.requests[r]) = libKey
        /\ Succeeded(r) => CallsFor(t, libKey) # {}

\* C27 (library key round trip): for every lib the request built by the
\* aggregator carries the lib's debugName and breakpadId and the key
\* recomputed in the success callback is the collector's key, so that
\* every thread with an entry for the lib receives its step callback, also
\* when the debugName or the breakpadId contains '/'.
LibraryKeyRoundTrip ==
    run.providerCalls = 1 =>
        \A t \in ThreadIndexes :
            \A libKey \in MapKeys(At(symbolicationInfo, t)) :
                RoundTrips(t, libKey)

HasSlash(chars) == \E i \in 1..Len(chars) : chars[i] = "/"

\* The same for the libs whose debugName and breakpadId hold no '/'.
LibraryKeyRoundTripWithoutSlash ==
    run.providerCalls = 1 =>
        \A t \in ThreadIndexes :
            \A libKey \in MapKeys(At(symbolicationInfo, t)) :
                (/\ ~HasSlash(LibOfEntry(t, libKey).debugName)
                 /\ ~HasSlash(LibOfEntry(t, libKey).breakpadId))
                    => RoundTrips(t, libKey)

\* A run has completed with success for every request, and the threads
\* with an entry for a lib with '/' in its debugName or in its breakpadId
\* have received no step callback: no request carries the lib, and no
\* request's recomputed key is the lib's key.
KeyLostBySplit ==
    /\ run.pc = "done"
    /\ \A r \in Requests : Succeeded(r)
    /\ \E t1, t2 \in ThreadIndexes :
       \E k1 \in MapKeys(At(symbolicationInfo, t1)) :
       \E k2 \in MapKeys(At(symbolicationInfo, t2)) :
           /\ HasSlash(LibOfEntry(t1, k1).debugName)
           /\ HasSlash(LibOfEntry(t2, k2).breakpadId)
           /\ CallsFor(t1, k1) = {}
           /\ CallsFor(t2, k2) = {}
           /\ \A r \in Requests :
                  /\ run.requests[r].lib # LibOfEntry(t1, k1)
                  /\ run.requests[r].lib # LibOfEntry(t2, k2)
                  /\ SuccessCallbackLibKey(run.requests[r]) \notin {k1, k2}


----------------------------------------------------------------------------
(* Two stores load the same thread and collect the same info; the provider *)
(* answers for both libraries, and the stores apply the steps of the       *)
(* libraries in opposite orders.  Store 0 applies them in the order of the *)
(* requests, store 1 in the reverse order.                                 *)

\* The thread a step on the lib returns, with the info collected from the
\* thread the step is applied to.
Symbolicated(thread, lib, resultsForLib) ==
    CHOOSE returned \in
        {ApplySymbolicationStep(
             thread,
             [threadLibSymbolicationInfo |-> info,
              resultsForLib |-> resultsForLib],
             <<>>).thread :
         info \in {MapGet(GetThreadSymbolicationInfo(thread).map,
                          LibKey(lib))}} : TRUE

\* One func per frame: a JS frame and two frames in each of LibA and LibB.
ThreadTwoLibs ==
    MakeThread(<<LibA, LibB>>,
               <<<<"url", Null>>, <<"library", 0>>, <<"library", 1>>>>,
               <<<<"js", 0, TRUE>>, <<"0xa", 1, FALSE>>, <<"0x0", 2, FALSE>>,
                 <<"0x0", 1, FALSE>>, <<"0x8", 2, FALSE>>>>,
               <<<<Null, 0>>, <<10, 1>>, <<0, 2>>, <<0, 3>>, <<8, 4>>>>)

\* The thread as a profile loaded from a file has it: each library was
\* symbolicated with a table that puts its two frames into one function,
\* and the func table was cut back to the funcs in use.
ThreadTwoLibsReloaded ==
    LET symbol == [symbolAddress |-> 0, name |-> "f",
                   file |-> Undefined, line |-> Null]
    IN  CHOOSE reloaded \in
            {[mergedB EXCEPT !.funcTable.length = 3] :
             mergedB \in
                 {Symbolicated(mergedA, LibB, [a \in {0, 8} |-> symbol]) :
                  mergedA \in {Symbolicated(ThreadTwoLibs, LibA,
                                            [a \in {0, 10} |-> symbol])}}} : TRUE

OrderThreads == {ThreadTwoLibs, ThreadTwoLibsReloaded}

Stores == {0, 1}

InitOrder ==
    /\ threads \in {<<t, t>> : t \in OrderThreads}
    /\ symbolicationInfo =
           [i \in 1..2 |-> GetThreadSymbolicationInfo(threads[i]).map]
    /\ oldFuncToNewFuncMap = <<<<>>, <<>>>>
    /\ last = NoStep
    /\ prev = NoStep
    /\ nSteps = 0
    /\ run = [NoRun EXCEPT
                 !.pc = "awaiting",
                 !.number = 1,
                 !.requests =
                     BuildLibSymbolicationRequestsForAllThreads(
                         <<symbolicationInfo[1]>>),
                 !.outcomes =
                     [r \in 1..Len(symbolicationInfo[1]) |-> NoOutcome],
                 !.start = threads,
                 !.providerCalls = 1]
    /\ consensusCall = NoConsensus

\* The provider answers a request; both stores receive the same results.
ProviderAnswers ==
    \E r \in 1..Len(run.requests) :
        /\ run.outcomes[r].kind = "pending"
        /\ \E results \in
               ResultsForAddresses(SetElems(run.requests[r].addresses)) :
               run' = [run EXCEPT
                          !.outcomes[r] =
                              [NoOutcome EXCEPT !.kind = "success",
                                                !.results = results]]
        /\ UNCHANGED <<threads, symbolicationInfo, oldFuncToNewFuncMap,
                       last, prev, nSteps, consensusCall>>

\* The store has applied the step of the request.
HasApplied(store, r) ==
    \E i \in 1..Len(run.calls) :
        /\ run.calls[i].threadIndex = store
        /\ run.calls[i].libKey = SuccessCallbackLibKey(run.requests[r])

\* The request is the next one in the store's order.
IsNextOf(store, r) ==
    /\ ~HasApplied(store, r)
    /\ \A q \in 1..Len(run.requests) :
           (IF store = 0 THEN q < r ELSE q > r) => HasApplied(store, q)

\* A store applies the step of its next library to its thread and its map,
\* with the info collected when the thread was loaded.
StoreApplies ==
    \E store \in Stores :
    \E r \in 1..Len(run.requests) :
        /\ run.outcomes[r].kind = "success"
        /\ IsNextOf(store, r)
        /\ \E call \in {StepCall(symbolicationInfo, run.outcomes[r].results,
                                 SuccessCallbackLibKey(run.requests[r]),
                                 store)} :
           \E result \in {ApplySymbolicationStep(
                              At(threads, store), call.symbolicationStep,
                              At(oldFuncToNewFuncMap, store))} :
               /\ threads' = SetAt(threads, store, result.thread)
               /\ oldFuncToNewFuncMap' =
                      SetAt(oldFuncToNewFuncMap, store, result.map)
               /\ run' = [run EXCEPT !.calls = Append(@, call)]
               /\ last' = [valid |-> TRUE,
                           threadIndex |-> store,
                           libKey |-> call.libKey,
                           info |-> call.symbolicationStep.threadLibSymbolicationInfo,
                           resultsForLib |-> call.symbolicationStep.resultsForLib,
                           before |-> At(threads, store),
                           input |-> result.input,
                           thread |-> result.thread,
                           mapBefore |-> At(oldFuncToNewFuncMap, store),
                           mapAfter |-> result.map,
                           resolved |-> result.resolved,
                           error |-> result.error]
        /\ prev' = last
        /\ nSteps' = nSteps + 1
        /\ UNCHANGED <<symbolicationInfo, consensusCall>>

NextOrder == ProviderAnswers \/ StoreApplies

SpecOrder == InitOrder /\ [][NextOrder]_vars

\* What a frame reads as: its address and line, the name and file name of
\* its func, the name and address of its native symbol.
FrameView(thread, frame) ==
    LET symbol == At(thread.frameTable.nativeSymbol, frame)
    IN  [address |-> At(thread.frameTable.address, frame),
         line |-> At(thread.frameTable.line, frame),
         funcName |-> FuncName(thread, frame),
         fileName |-> FuncFileName(thread, At(thread.frameTable.func, frame)),
         symbolName |->
             IF symbol = Null THEN Undefined
             ELSE At(thread.stringTable, At(thread.nativeSymbols.name, symbol)),
         symbolAddress |->
             IF symbol = Null THEN Null
             ELSE At(thread.nativeSymbols.address, symbol)]

\* The two threads group their frames into funcs and into native symbols
\* in the same way.
SamePartition(t1, t2) ==
    \A f, g \in 0..(t1.frameTable.length - 1) :
        /\ (At(t1.frameTable.func, f) = At(t1.frameTable.func, g))
               <=> (At(t2.frameTable.func, f) = At(t2.frameTable.func, g))
        /\ (At(t1.frameTable.nativeSymbol, f) = At(t1.frameTable.nativeSymbol, g))
               <=> (At(t2.frameTable.nativeSymbol, f)
                        = At(t2.frameTable.nativeSymbol, g))

BothOrdersApplied ==
    \A store \in Stores : \A r \in 1..Len(run.requests) : HasApplied(store, r)

\* The info the store holds for the libraries it has not yet applied is the
\* info a collection from its thread as it is now returns.
PendingInfoIsValid(store) ==
    \A r \in 1..Len(run.requests) :
        ~HasApplied(store, r) =>
            LET libKey == SuccessCallbackLibKey(run.requests[r])
                now == GetThreadSymbolicationInfo(At(threads, store)).map
            IN  /\ MapHas(now, libKey)
                /\ MapGet(now, libKey) = EntryOf(store, libKey)

\* C28 (library order does not matter): for two libraries of one thread,
\* with both infos collected from the same initial thread, the steps in
\* either order give every frame the same func name, file name, line,
\* native-symbol name and address, the same partition of the frames into
\* funcs and into native symbols and the same key set of the map; the info
\* collected for a library before the other library's step is the info a
\* collection after that step returns.
LibraryOrderDoesNotMatter ==
    /\ \A store \in Stores : PendingInfoIsValid(store)
    /\ BothOrdersApplied =>
           /\ At(threads, 0).frameTable.length = At(threads, 1).frameTable.length
           /\ \A frame \in 0..(At(threads, 0).frameTable.length - 1) :
                  FrameView(At(threads, 0), frame) = FrameView(At(threads, 1), frame)
           /\ SamePartition(At(threads, 0), At(threads, 1))
           /\ MapKeys(At(oldFuncToNewFuncMap, 0)) = MapKeys(At(oldFuncToNewFuncMap, 1))

\* Both orders were applied, each library got a func and a native symbol
\* appended, and the stores number the appended funcs differently.
LibraryOrderDoesNotMatterWitness ==
    /\ BothOrdersApplied
    /\ At(threads, 0).funcTable.length >= run.start[1].funcTable.length + 2
    /\ At(threads, 0).nativeSymbols.length >= run.start[1].nativeSymbols.length + 2
    /\ \E frame \in 0..(At(threads, 0).frameTable.length - 1) :
           /\ At(At(threads, 0).frameTable.func, frame)
                  # At(At(threads, 1).frameTable.func, frame)
           /\ At(At(threads, 0).frameTable.nativeSymbol, frame)
                  # At(At(threads, 1).frameTable.nativeSymbol, frame)
    /\ At(threads, 0) # At(threads, 1)


----------------------------------------------------------------------------
(* Properties of the resource of the funcs a step assigns.                 *)

\* The entry a collection from the thread returns for the key.
CollectedNow(thread, libKey) ==
    MapGet(GetThreadSymbolicationInfo(thread).map, libKey)

\* A collection from the thread the step returned reports for the library
\* the frames and addresses of the entry.
ReportsSameFrames(step, libKey, entry) ==
    /\ MapHas(GetThreadSymbolicationInfo(step.thread).map, libKey)
    /\ CollectedNow(step.thread, libKey).allFramesForThisLib
           = entry.allFramesForThisLib
    /\ CollectedNow(step.thread, libKey).frameAddresses = entry.frameAddresses

\* C29 (frames never leave their library): every func a step assigns to a
\* frame of the library has the library's resourceIndex as its resource,
\* and the func rows the step appends have isJS false, relevantForJS false,
\* lineNumber null and columnNumber null; so after a sequence of steps the
\* collector, run again, reports for the library the allFramesForThisLib
\* and frameAddresses it reported before the first step.
FramesNeverLeaveLibrary ==
    Applied(last) =>
        /\ \A frame \in LibFramesOf(last) :
               At(last.thread.funcTable.resource, NewFunc(last, frame))
                   = last.info.resourceIndex
        /\ \A func \in Rows(last.before.funcTable.length,
                            last.thread.funcTable.length) :
               /\ At(last.thread.funcTable.isJS, func) = FALSE
               /\ At(last.thread.funcTable.relevantForJS, func) = FALSE
               /\ At(last.thread.funcTable.lineNumber, func) = Null
               /\ At(last.thread.funcTable.columnNumber, func) = Null
        /\ \A libKey \in MapKeys(At(symbolicationInfo, last.threadIndex)) :
               ReportsSameFrames(last, libKey,
                                 EntryOf(last.threadIndex, libKey))
        /\ (Applied(prev) /\ last.before = prev.thread)
               => ReportsSameFrames(last, prev.libKey, prev.info)

\* A step has appended a func row and moved a frame of the library to it,
\* and a second step of the library has moved the frame to another func.
FramesNeverLeaveLibraryWitness ==
    /\ Applied(prev)
    /\ Applied(last)
    /\ last.before = prev.thread
    /\ last.libKey = prev.libKey
    /\ prev.thread.funcTable.length > prev.before.funcTable.length
    /\ \E frame \in LibFramesOf(last) :
           /\ NewFunc(prev, frame) >= prev.before.funcTable.length
           /\ At(prev.thread.funcTable.resource, NewFunc(prev, frame))
                  = prev.info.resourceIndex
           /\ NewFunc(last, frame) # NewFunc(prev, frame)
    /\ last.info.allFramesForThisLib = prev.info.allFramesForThisLib


----------------------------------------------------------------------------
(* Overlapping runs: two runs collect the info from the same thread; the   *)
(* step of the first run is committed, and the second run applies its step *)
(* to the committed thread with the info it collected before.              *)

\* One func per frame: three frames of LibA.
ThreadThreeFrames ==
    MakeThread(<<LibA>>,
               <<<<"library", 0>>>>,
               <<<<"0x0", 0, FALSE>>, <<"0xa", 0, FALSE>>, <<"0x14", 0, FALSE>>>>,
               <<<<0, 0>>, <<10, 1>>, <<20, 2>>>>)

\* The thread as a profile loaded from a file has it: LibA was symbolicated
\* with a table that puts the three frames into one function, and the func
\* table was cut back to the func in use.
ThreadThreeFramesReloaded ==
    LET symbol == [symbolAddress |-> 0, name |-> "f",
                   file |-> Undefined, line |-> Null]
    IN  CHOOSE reloaded \in
            {[merged EXCEPT !.funcTable.length = 1] :
             merged \in {Symbolicated(ThreadThreeFrames, LibA,
                                      [a \in {0, 10, 20} |-> symbol])}} : TRUE

OverlapThreads == {ThreadOneFuncPerFrame, ThreadReloaded, ThreadThreeFramesReloaded}

InitOverlap ==
    /\ threads \in {<<t>> : t \in OverlapThreads}
    /\ symbolicationInfo = <<GetThreadSymbolicationInfo(threads[1]).map>>
    /\ oldFuncToNewFuncMap = <<<<>>>>
    /\ last = NoStep
    /\ prev = NoStep
    /\ nSteps = 0
    /\ run = NoRun
    /\ consensusCall = NoConsensus

\* The step of the first run: its info is the info of the thread.
OtherRunCommits ==
    /\ nSteps = 0
    /\ \E i \in 1..Len(At(symbolicationInfo, 0)) :
       \E resultsForLib \in
           ResultsForAddresses(
               SetElems(At(symbolicationInfo, 0)[i][2].frameAddresses)) :
           Step(0, At(symbolicationInfo, 0)[i][1], At(symbolicationInfo, 0)[i][2],
                resultsForLib, <<>>)
    /\ UNCHANGED symbolicationInfo

\* The step of the second run for the same library, with the info collected
\* before the first run's step was committed.
StaleStep ==
    /\ nSteps = 1
    /\ \E resultsForLib \in
           ResultsForAddresses(
               SetElems(EntryOf(0, last.libKey).frameAddresses)) :
           Step(0, last.libKey, EntryOf(0, last.libKey), resultsForLib, <<>>)
    /\ UNCHANGED symbolicationInfo

NextOverlap == OtherRunCommits \/ StaleStep

SpecOverlap == InitOverlap /\ [][NextOverlap]_vars

\* The last step was applied to the thread the previous step of the same
\* library returned, with the info the previous step was given.
IsStale ==
    /\ Applied(prev)
    /\ Applied(last)
    /\ last.libKey = prev.libKey
    /\ last.before = prev.thread
    /\ last.info = prev.info

\* The thread a step with the same results returns when its info is
\* collected from the thread it is applied to.
FreshStep(step) ==
    ApplySymbolicationStep(
        step.before,
        [threadLibSymbolicationInfo |-> CollectedNow(step.before, step.libKey),
         resultsForLib |-> step.resultsForLib],
        step.mapBefore).thread

\* The returned thread has live row indices, and merge correctness and func
\* grouping correctness hold for the frames of the library.
StaleStepIsConsistent ==
    IsStale =>
        /\ FramesPointAtRows(last.thread)
        /\ \A f1, f2 \in LibFramesOf(last) :
               /\ SymbolAddressOf(last, f1) = SymbolAddressOf(last, f2)
                      => NewSymbol(last, f1) = NewSymbol(last, f2)
               /\ (NewFunc(last, f1) = NewFunc(last, f2))
                      <=> (ResolvedPairOf(last, f1) = ResolvedPairOf(last, f2))

\* The step with the stale info and the step with fresh info return threads
\* that read the same frame by frame and group the frames in the same way,
\* and the stale one has at least as many rows.
StaleStepOnlyAppends ==
    IsStale =>
        \A fresh \in {FreshStep(last)} :
            /\ \A frame \in AllFramesOf(last) :
                   FrameView(last.thread, frame) = FrameView(fresh, frame)
            /\ SamePartition(last.thread, fresh)
            /\ last.thread.funcTable.length >= fresh.funcTable.length
            /\ last.thread.nativeSymbols.length >= fresh.nativeSymbols.length

\* C30 (overlapping runs keep the tables consistent): a step with the info
\* collected from T0, applied to the thread T1 that another run's step for
\* the library returned, returns a thread in which every frame's func and
\* nativeSymbol are live row indices and merge correctness and func
\* grouping correctness hold for the frames of the library, and the only
\* effect of the stale info is that rows are appended that a fresh
\* collection would have reused.
OverlappingRunsConsistent == StaleStepIsConsistent /\ StaleStepOnlyAppends


\* The same for the steps whose results cover every address of the library.
StaleStepOnlyAppendsIfResolved ==
    (IsStale /\ \A frame \in LibFramesOf(last) : HasResult(last, frame)) =>
        \A fresh \in {FreshStep(last)} :
            /\ \A frame \in AllFramesOf(last) :
                   FrameView(last.thread, frame) = FrameView(fresh, frame)
            /\ SamePartition(last.thread, fresh)
            /\ last.thread.funcTable.length >= fresh.funcTable.length
            /\ last.thread.nativeSymbols.length >= fresh.nativeSymbols.length

\* The same but for the file names and the grouping into funcs.
StaleStepOnlyAppendsButForFiles ==
    IsStale =>
        \A fresh \in {FreshStep(last)} :
            /\ \A frame \in AllFramesOf(last) :
                   [FrameView(last.thread, frame) EXCEPT !.fileName = Undefined]
                       = [FrameView(fresh, frame) EXCEPT !.fileName = Undefined]
            /\ \A f, g \in AllFramesOf(last) :
                   (NewSymbol(last, f) = NewSymbol(last, g))
                       <=> (At(fresh.frameTable.nativeSymbol, f)
                                = At(fresh.frameTable.nativeSymbol, g))
            /\ last.thread.funcTable.length >= fresh.funcTable.length
            /\ last.thread.nativeSymbols.length >= fresh.nativeSymbols.length

\* The stale info lacks a func row of the library that the first run's step
\* appended, and a frame without result, whose func is that row, reads with
\* another file name after the step with the stale info than after the step
\* with fresh info.
StaleStepChangesFileName ==
    /\ IsStale
    /\ StaleStepIsConsistent
    /\ \E frame \in LibFramesOf(last) :
           /\ ~HasResult(last, frame)
           /\ ~SetHas(last.info.allFuncsForThisLib, OldFunc(last, frame))
           /\ SetHas(CollectedNow(last.before, last.libKey).allFuncsForThisLib,
                     OldFunc(last, frame))
           /\ \E fresh \in {FreshStep(last)} :
                  /\ FrameView(last.thread, frame).fileName
                         # FrameView(fresh, frame).fileName
                  /\ FrameView(last.thread, frame).fileName
                         = FuncFileName(last.before, OldFunc(last, frame))
                  /\ last.thread.funcTable.length > fresh.funcTable.length

====
